---- MODULE Spec2Model ----
(***************************************************************************)
(* Model of the KV-based unified storage backend                           *)
(* (pkg/storage/unified/resource/storage_backend.go).                      *)
(*                                                                         *)
(* A resource key is [group, name] inside one namespace and resource kind; *)
(* resource versions are minted by one snowflake node, modelled as a       *)
(* counter.  The data, metadata and event stores are sets of records keyed *)
(* by (key, resource version, action).  WriteEvent and ListIterator are    *)
(* split at the points where another goroutine can run between two store   *)
(* calls.                                                                  *)
(***************************************************************************)
EXTENDS Integers, Sequences, FiniteSets, TLC

VARIABLES
    snowflake,    \* last resource version minted by k.snowflake
    dataStore,    \* set of DataRecords  [key, rv, action, value]
    metaStore,    \* set of MetaRecords  [key, rv, action, folder]
    eventStore,   \* set of EventRecords [key, rv, action, folder, previousRV]
    writers,      \* one WriteEvent call per writer goroutine
    written,      \* the writes whose WriteEvent call returned a resource version
    readResp,     \* the response of the latest ReadResource call
    lister,       \* the ListIterator call of the listing client
    history,      \* the response of the latest ListHistory call
    stats,        \* the response of the latest GetResourceStats call
    pager,        \* a client paging through ListHistory with its tokens
    watch         \* the subscription made by WatchWriteEvents

vars == <<snowflake, dataStore, metaStore, eventStore, writers, written,
          readResp, lister, history, stats, pager, watch>>

stores == <<dataStore, metaStore, eventStore>>

----------------------------------------------------------------------------
(* Bounds *)

MaxRV == 4          \* resource versions minted under SpecSeq
MaxHistRV == 5      \* resource versions minted under SpecHist
MaxConcRV == 4      \* resource versions minted under Spec
MaxListWrites == 4  \* resource versions up to which SpecList writes
MaxListRV == 6      \* resource versions minted under SpecList
NumWriters == 2     \* concurrent WriteEvent callers
MaxStatsRV == 5     \* resource versions minted under SpecStats
MaxFaultRV == 3     \* resource versions minted under SpecFault
MaxDanglingRV == 3  \* resource versions minted under SpecDangling
MaxPageRV == 6      \* resource versions minted under SpecPage
MaxWatchRV == 4     \* resource versions minted under SpecWatch
MaxAllRV == 3       \* resource versions minted under SpecAll
MaxIterRV == 5      \* resource versions minted under SpecIter
MaxReadRV == 3      \* resource versions minted under SpecRead
MaxKeyRV == 4       \* resource versions minted under SpecKey
MaxMatchWrites == 4 \* the writes start below this version under SpecMatch
MaxMatchRV == 8     \* resource versions minted under SpecMatch
EventsBuffer == 1   \* capacity of the channel WatchWriteEvents returns
NotifierBuffer == 1 \* capacity of the notifier's channel

Writers == 1..NumWriters
Names == {1, 2, 3}  \* object names
Bodies == {1, 2}    \* payload bodies

----------------------------------------------------------------------------
(* Data model *)

DataActionCreated == "created"
DataActionUpdated == "updated"
DataActionDeleted == "deleted"

WatchEvent_ADDED == "ADDED"
WatchEvent_MODIFIED == "MODIFIED"
WatchEvent_DELETED == "DELETED"
WatchEvent_BOOKMARK == "BOOKMARK"

ErrNone == "ok"
ErrNotFound == "not found"
ErrResourceAlreadyExists == "resource already exists"

NoKey == [group |-> 0, name |-> 0]
Key(g, n) == [group |-> g, name |-> n]
NoValue == [body |-> 0, folder |-> 0]
Payload(b, f) == [body |-> b, folder |-> f]

\* A WriteEvent argument.
Event(t, k, v, f, p) ==
    [type |-> t, key |-> k, value |-> v, folder |-> f, previousRV |-> p]
NoEvent == Event("", NoKey, NoValue, 0, 0)

\* The greatest element of a non-empty set of integers.
Max(S) == CHOOSE x \in S : \A y \in S : y <= x

----------------------------------------------------------------------------
(* Data store, metadata store, event store *)

\* dataStore.Get: the payload stored under (key, rv, action).
DataGet(k, rv, action) ==
    LET hit == {d \in dataStore : d.key = k /\ d.rv = rv /\ d.action = action}
    IN  IF hit = {} THEN [err |-> ErrNotFound, value |-> NoValue]
        ELSE [err |-> ErrNone, value |-> (CHOOSE d \in hit : TRUE).value]

\* dataStore.Keys: every data key of one object.
DataKeys(k) == {[key |-> d.key, rv |-> d.rv, action |-> d.action] : d \in {x \in dataStore : x.key = k}}

NoMeta == [key |-> NoKey, rv |-> 0, action |-> "", folder |-> 0]

\* metaStore.GetResourceKeyAtRevision: the MetaRecord of the key with the
\* greatest RV <= rv (rv = 0: the greatest RV); NotFound when there is
\* none or when that record is a deletion.
MetaAtRevisionIn(store, k, rv) ==
    LET seen == {m \in store : m.key = k /\ (rv = 0 \/ m.rv <= rv)}
    IN  IF seen = {} THEN [err |-> ErrNotFound, meta |-> NoMeta]
        ELSE LET top == CHOOSE m \in seen : m.rv = Max({x.rv : x \in seen})
             IN  IF top.action = DataActionDeleted
                 THEN [err |-> ErrNotFound, meta |-> NoMeta]
                 ELSE [err |-> ErrNone, meta |-> top]

GetResourceKeyAtRevision(k, rv) == MetaAtRevisionIn(metaStore, k, rv)

\* metaStore.GetLatestResourceKey
GetLatestResourceKey(k) == GetResourceKeyAtRevision(k, 0)

\* metaStore.ListResourceKeysAtRevision: for every object matching the
\* key prefix (name 0: every name), its MetaRecord at the revision, in
\* store order (by group, then by name); deleted objects are skipped.
Matches(prefix, k) ==
    /\ k.group = prefix.group
    /\ prefix.name = 0 \/ k.name = prefix.name

KeyBefore(a, b) == a.group < b.group \/ (a.group = b.group /\ a.name < b.name)

RECURSIVE SortKeys(_)
SortKeys(S) ==
    IF S = {} THEN <<>>
    ELSE LET first == CHOOSE k \in S : \A o \in S \ {k} : KeyBefore(k, o)
         IN  <<first>> \o SortKeys(S \ {first})

ListResourceKeysAtRevision(prefix, rv) ==
    LET live == {k \in {m.key : m \in metaStore} :
                    /\ Matches(prefix, k)
                    /\ GetResourceKeyAtRevision(k, rv).err = ErrNone}
        order == SortKeys(live)
    IN  [i \in 1..Len(order) |-> GetResourceKeyAtRevision(order[i], rv).meta]

----------------------------------------------------------------------------
(* The responses a caller holds before it has read anything *)

NoRead == [key |-> NoKey, atRV |-> 0,
           resp |-> [code |-> 0, rv |-> 0, value |-> NoValue, folder |-> 0]]

NoHistory == [req |-> [key |-> NoKey, source |-> "", match |-> "", rv |-> 0,
                       limit |-> 0, token |-> <<>>],
              err |-> "", listRV |-> 0, items |-> <<>>, token |-> <<>>,
              lookupErr |-> ""]

NoStats == [asked |-> FALSE, minCount |-> 0, err |-> "", rows |-> {}]

\* A paging client that has not started: its first request, the match
\* its last call named, the token of its last page, the versions it was
\* handed so far and the versions that the listing held when the first
\* page was asked.
NoPager == [req |-> NoHistory.req, match |-> "", token |-> <<>>, got |-> <<>>,
            start |-> <<>>, pages |-> 0]

\* No subscription: WatchWriteEvents was not called.
NoWatch == [pc |-> "none", ctx |-> "none", notified |-> {},
            notifierEvents |-> <<>>, notifierClosed |-> FALSE,
            pending |-> <<>>, events |-> <<>>, closed |-> FALSE]

----------------------------------------------------------------------------
(* WriteEvent *)

Idle == [pc |-> "idle", event |-> NoEvent, rv |-> 0, action |-> "",
         ret |-> [rv |-> 0, err |-> ""]]

\* event.Validate: the key and the value must not be empty.
Validate(e) == e.key.group # 0 /\ e.key.name # 0 /\ e.value # NoValue

Return(w, rv, err) ==
    /\ writers' = [writers EXCEPT ![w] = [Idle EXCEPT !.ret = [rv |-> rv, err |-> err]]]
    /\ written' = IF err # ErrNone THEN written
                  ELSE written \cup {[key |-> writers[w].event.key, rv |-> rv,
                                      type |-> writers[w].event.type,
                                      value |-> writers[w].event.value]}

Goto(w, pc) == writers' = [writers EXCEPT ![w].pc = pc]

\* WriteEventBegin with a generator that hands out its last value again.
WriteEventBeginRepeating(w, e, cap) ==
    /\ writers[w].pc = "idle"
    /\ Validate(e)
    /\ snowflake > 0
    /\ writers' = [writers EXCEPT ![w] =
           [Idle EXCEPT !.pc = "switch", !.event = e, !.rv = snowflake]]
    /\ readResp' = NoRead
    /\ history' = NoHistory
    /\ stats' = NoStats
    /\ UNCHANGED <<snowflake, stores, written, lister, pager, watch>>

\* Lines 56-60: validate the event and mint the resource version.
WriteEventBegin(w, e, cap) ==
    /\ writers[w].pc = "idle"
    /\ IF ~Validate(e)
       THEN /\ writers' = [writers EXCEPT ![w] =
                   [Idle EXCEPT !.ret = [rv |-> 0, err |-> "invalid event"]]]
            /\ UNCHANGED snowflake
       ELSE /\ snowflake < cap
            /\ snowflake' = snowflake + 1
            /\ writers' = [writers EXCEPT ![w] =
                   [Idle EXCEPT !.pc = "switch", !.event = e, !.rv = snowflake + 1]]
    \* the caller has let go of the response of its previous read
    /\ readResp' = NoRead
    /\ history' = NoHistory
    /\ stats' = NoStats
    /\ UNCHANGED <<stores, written, lister, pager, watch>>

\* The action the switch of lines 63-88 chooses for an event type.
ActionOf(type) ==
    CASE type = WatchEvent_ADDED -> DataActionCreated
      [] type = WatchEvent_MODIFIED -> DataActionUpdated
      [] type = WatchEvent_DELETED -> DataActionDeleted
      [] OTHER -> ""

\* WriteEventSwitch without the existence check of lines 67-81.
WriteEventSwitchUnchecked(w, faults) ==
    /\ writers[w].pc = "switch"
    /\ LET e == writers[w].event
       IN  IF ActionOf(e.type) = ""
           THEN Return(w, 0, "invalid event type")
           ELSE /\ writers' = [writers EXCEPT ![w].pc = "data",
                                              ![w].action = ActionOf(e.type)]
                /\ UNCHANGED written
    /\ UNCHANGED <<snowflake, stores, readResp, lister, history, stats, pager, watch>>

\* WriteEventSwitch asking for a live record before an update or a delete.
WriteEventSwitchGuarded(w, faults) ==
    /\ writers[w].pc = "switch"
    /\ LET e == writers[w].event
           found == GetLatestResourceKey(e.key)
       IN  \E fail \in faults :
           IF e.type = WatchEvent_ADDED /\ fail
           THEN Return(w, 0, "failed to check if resource exists")
           ELSE IF e.type = WatchEvent_ADDED /\ found.err = ErrNone
           THEN Return(w, 0, ErrResourceAlreadyExists)
           ELSE IF e.type # WatchEvent_ADDED /\ found.err # ErrNone
           THEN Return(w, 0, ErrNotFound)
           ELSE IF ActionOf(e.type) = ""
           THEN Return(w, 0, "invalid event type")
           ELSE /\ writers' = [writers EXCEPT ![w].pc = "data",
                                              ![w].action = ActionOf(e.type)]
                /\ UNCHANGED written
    /\ UNCHANGED <<snowflake, stores, readResp, lister, history, stats, pager, watch>>

\* Lines 63-88: choose the action; an ADDED event first looks the key up.
WriteEventSwitch(w, faults) ==
    /\ writers[w].pc = "switch"
    /\ LET e == writers[w].event
           found == GetLatestResourceKey(e.key)
       IN  \E fail \in faults :
           IF e.type = WatchEvent_ADDED /\ fail
           THEN Return(w, 0, "failed to check if resource exists")
           ELSE IF e.type = WatchEvent_ADDED /\ found.err = ErrNone
           THEN Return(w, 0, ErrResourceAlreadyExists)
           ELSE IF ActionOf(e.type) = ""
           THEN Return(w, 0, "invalid event type")
           ELSE /\ writers' = [writers EXCEPT ![w].pc = "data",
                                              ![w].action = ActionOf(e.type)]
                /\ UNCHANGED written
    /\ UNCHANGED <<snowflake, stores, readResp, lister, history, stats, pager, watch>>

\* WriteEventData with a delete that erases the earlier DataRecords of
\* the key instead of appending to them.
WriteEventDataErasing(w, buildFaults, faults) ==
    /\ writers[w].pc = "data"
    /\ LET e == writers[w].event
           kept == IF writers[w].action = DataActionDeleted
                   THEN {d \in dataStore : d.key # e.key} ELSE dataStore
       IN  /\ dataStore' = kept \cup
                   {[key |-> e.key, rv |-> writers[w].rv,
                     action |-> writers[w].action, value |-> e.value]}
           /\ Goto(w, "meta")
           /\ UNCHANGED written
    /\ UNCHANGED <<snowflake, metaStore, eventStore, readResp, lister, history, stats, pager, watch>>

\* WriteEventData going on to the metadata save when the data save failed.
WriteEventDataUnchecked(w, buildFaults, faults) ==
    /\ writers[w].pc = "data"
    /\ Goto(w, "meta")
    /\ UNCHANGED <<snowflake, stores, written, readResp, lister, history, stats, pager, watch>>

\* WriteEventData saving the DataRecord before the document is built.
WriteEventDataBuildLate(w, buildFaults, faults) ==
    /\ writers[w].pc = "data"
    /\ LET e == writers[w].event
       IN  /\ dataStore' = dataStore \cup
                   {[key |-> e.key, rv |-> writers[w].rv,
                     action |-> writers[w].action, value |-> e.value]}
           /\ Return(w, 0, "failed to build document")
    /\ UNCHANGED <<snowflake, metaStore, eventStore, readResp, lister, history, stats, pager, watch>>

\* Lines 90-107: build the search document, then save the DataRecord.
WriteEventData(w, buildFaults, faults) ==
    /\ writers[w].pc = "data"
    /\ LET e == writers[w].event
       IN  \E buildFail \in buildFaults, fail \in faults :
           IF buildFail
           THEN Return(w, 0, "failed to build document") /\ UNCHANGED dataStore
           ELSE IF fail
           THEN Return(w, 0, "failed to write data") /\ UNCHANGED dataStore
           ELSE /\ dataStore' = dataStore \cup
                       {[key |-> e.key, rv |-> writers[w].rv,
                         action |-> writers[w].action, value |-> e.value]}
                /\ Goto(w, "meta")
                /\ UNCHANGED written
    /\ UNCHANGED <<snowflake, metaStore, eventStore, readResp, lister, history, stats, pager, watch>>

\* WriteEventMeta taking the DataRecord back when the metadata save fails.
WriteEventMetaRollback(w, faults) ==
    /\ writers[w].pc = "meta"
    /\ dataStore' = {d \in dataStore : d.rv # writers[w].rv}
    /\ Return(w, 0, "failed to write metadata")
    /\ UNCHANGED <<snowflake, metaStore, eventStore, readResp, lister, history, stats, pager, watch>>

\* WriteEventMeta replacing the earlier MetaRecords of the key.
WriteEventMetaReplacing(w, faults) ==
    /\ writers[w].pc = "meta"
    /\ LET e == writers[w].event
       IN  metaStore' = {m \in metaStore : m.key # e.key} \cup
               {[key |-> e.key, rv |-> writers[w].rv,
                 action |-> writers[w].action, folder |-> e.folder]}
    /\ Goto(w, "event")
    /\ UNCHANGED <<snowflake, dataStore, eventStore, written, readResp, lister, history, stats, pager, watch>>

\* Lines 109-126: save the MetaRecord.
WriteEventMeta(w, faults) ==
    /\ writers[w].pc = "meta"
    /\ LET e == writers[w].event
       IN  \E fail \in faults :
           IF fail
           THEN Return(w, 0, "failed to write metadata") /\ UNCHANGED metaStore
           ELSE /\ metaStore' = metaStore \cup
                       {[key |-> e.key, rv |-> writers[w].rv,
                         action |-> writers[w].action, folder |-> e.folder]}
                /\ Goto(w, "event")
                /\ UNCHANGED written
    /\ UNCHANGED <<snowflake, dataStore, eventStore, readResp, lister, history, stats, pager, watch>>

\* WriteEventSave handing the event to the watcher itself, on the
\* notifier's bounded channel.
WriteEventSaveNotifying(w, faults) ==
    /\ writers[w].pc = "event"
    /\ watch.pc # "none" => Len(watch.notifierEvents) < NotifierBuffer
    /\ LET e == writers[w].event
           record == [key |-> e.key, rv |-> writers[w].rv,
                      action |-> writers[w].action, folder |-> e.folder,
                      previousRV |-> e.previousRV]
       IN  /\ eventStore' = eventStore \cup {record}
           /\ watch' = IF watch.pc = "none" THEN watch
                       ELSE [watch EXCEPT !.notifierEvents = Append(@, record),
                                          !.notified = @ \cup {record.rv}]
           /\ Return(w, writers[w].rv, ErrNone)
    /\ UNCHANGED <<snowflake, dataStore, metaStore, readResp, lister, history, stats, pager>>

\* WriteEventSave leaving the caller's PreviousRV out of the EventRecord.
WriteEventSaveNoPrevious(w, faults) ==
    /\ writers[w].pc = "event"
    /\ LET e == writers[w].event
       IN  \E fail \in faults :
           IF fail
           THEN Return(w, 0, "failed to save event") /\ UNCHANGED eventStore
           ELSE /\ eventStore' = eventStore \cup
                       {[key |-> e.key, rv |-> writers[w].rv,
                         action |-> writers[w].action, folder |-> e.folder,
                         previousRV |-> 0]}
                /\ Return(w, writers[w].rv, ErrNone)
    /\ UNCHANGED <<snowflake, dataStore, metaStore, readResp, lister, history, stats, pager, watch>>

\* Lines 128-142: save the EventRecord and return the resource version.
WriteEventSave(w, faults) ==
    /\ writers[w].pc = "event"
    /\ LET e == writers[w].event
       IN  \E fail \in faults :
           IF fail
           THEN Return(w, 0, "failed to save event") /\ UNCHANGED eventStore
           ELSE /\ eventStore' = eventStore \cup
                       {[key |-> e.key, rv |-> writers[w].rv,
                         action |-> writers[w].action, folder |-> e.folder,
                         previousRV |-> e.previousRV]}
                /\ Return(w, writers[w].rv, ErrNone)
    /\ UNCHANGED <<snowflake, dataStore, metaStore, readResp, lister, history, stats, pager, watch>>

----------------------------------------------------------------------------
(* ReadResource *)

StatusOK == 200
StatusBadRequest == 400
StatusNotFound == 404
StatusInternalServerError == 500

ReadError(code) == [code |-> code, rv |-> 0, value |-> NoValue, folder |-> 0]

\* ReadResource answering with the requested version instead of the
\* resolved one.
ReadResourceRequestRV(k, rv, metaFail, dataFail) ==
    LET found == GetResourceKeyAtRevision(k, rv)
        data == DataGet(k, found.meta.rv, found.meta.action)
    IN  IF found.err = ErrNotFound THEN ReadError(StatusNotFound)
        ELSE [code |-> StatusOK, rv |-> rv,
              value |-> data.value, folder |-> found.meta.folder]

\* ReadResource resolving the latest MetaRecord whatever version is asked.
ReadResourceLatest(k, rv, metaFail, dataFail) ==
    LET found == GetLatestResourceKey(k)
        data == DataGet(k, found.meta.rv, found.meta.action)
    IN  IF k = NoKey THEN ReadError(StatusBadRequest)
        ELSE IF found.err = ErrNotFound THEN ReadError(StatusNotFound)
        ELSE [code |-> StatusOK, rv |-> found.meta.rv,
              value |-> data.value, folder |-> found.meta.folder]

\* ReadResource answering a failed metadata lookup as not found.
ReadResourceHidingFailure(k, rv, metaFail, dataFail) ==
    IF k = NoKey THEN ReadError(StatusBadRequest)
    ELSE LET found == GetResourceKeyAtRevision(k, rv)
         IN  IF metaFail \/ found.err = ErrNotFound THEN ReadError(StatusNotFound)
             ELSE LET data == DataGet(k, found.meta.rv, found.meta.action)
                  IN  IF dataFail \/ data.err # ErrNone
                      THEN ReadError(StatusInternalServerError)
                      ELSE [code |-> StatusOK, rv |-> found.meta.rv,
                            value |-> data.value, folder |-> found.meta.folder]

\* Lines 145-181.  metaFail and dataFail are store failures.
ReadResource(k, rv, metaFail, dataFail) ==
    IF k = NoKey THEN ReadError(StatusBadRequest)
    ELSE LET found == GetResourceKeyAtRevision(k, rv)
         IN  IF metaFail THEN ReadError(StatusInternalServerError)
             ELSE IF found.err = ErrNotFound THEN ReadError(StatusNotFound)
             ELSE LET data == DataGet(k, found.meta.rv, found.meta.action)
                  IN  IF dataFail \/ data.err # ErrNone
                      THEN ReadError(StatusInternalServerError)
                      ELSE [code |-> StatusOK, rv |-> found.meta.rv,
                            value |-> data.value, folder |-> found.meta.folder]

DoReadResource(keys, faults) ==
    /\ \E k \in keys \cup {NoKey}, rv \in 0..snowflake, mf \in faults, df \in faults :
           readResp' = [key |-> k, atRV |-> rv, resp |-> ReadResource(k, rv, mf, df)]
    /\ history' = NoHistory
    /\ UNCHANGED <<snowflake, stores, writers, written, lister, stats, pager, watch>>

----------------------------------------------------------------------------
(* Continuation tokens *)

NoToken == <<>>

ContinueToken(offset, rv, asc) ==
    [StartOffset |-> offset, ResourceVersion |-> rv, SortAscending |-> asc]

\* ContinueToken.String: the wire form of a token.
TokenString(t) ==
    <<t.StartOffset, t.ResourceVersion, IF t.SortAscending THEN 1 ELSE 0>>

\* GetContinueToken: decode the wire form.
GetContinueToken(s) ==
    IF Len(s) # 3
    THEN [err |-> "invalid continue token", token |-> ContinueToken(0, 0, FALSE)]
    ELSE [err |-> ErrNone, token |-> ContinueToken(s[1], s[2], s[3] = 1)]

----------------------------------------------------------------------------
(* ListHistory *)

ListRequest_STORE == "STORE"
ListRequest_TRASH == "TRASH"

MatchUnset == "Unset"
MatchNotOlderThan == "NotOlderThan"
MatchNotNewerThan == "NotNewerThan"
MatchExact == "Exact"

\* A ListRequest: the key (or key prefix), the source, the version match,
\* the resource version, the page limit and the continuation token.
ListRequest(k, source, match, rv, limit, token) ==
    [key |-> k, source |-> source, match |-> match, rv |-> rv,
     limit |-> limit, token |-> token]

\* SortByRV that sorts newest first whatever the direction.
RECURSIVE SortByRVDescending(_, _)
SortByRVDescending(S, asc) ==
    IF S = {} THEN <<>>
    ELSE LET first == CHOOSE x \in S : \A y \in S : x.rv >= y.rv
         IN  <<first>> \o SortByRVDescending(S \ {first}, asc)

\* sort.Slice by resource version, ascending or descending.
RECURSIVE SortByRV(_, _)
SortByRV(S, asc) ==
    IF S = {} THEN <<>>
    ELSE LET first == CHOOSE x \in S : \A y \in S :
                          IF asc THEN x.rv <= y.rv ELSE x.rv >= y.rv
         IN  <<first>> \o SortByRV(S \ {first}, asc)

\* VersionFilter with no lower bound for NotOlderThan.
VersionFilterUnbounded(keys, match, rv) ==
    CASE match = MatchExact -> {k \in keys : k.rv = rv}
      [] match = MatchNotOlderThan -> keys
      [] OTHER ->
            IF rv > 0 THEN {k \in keys : k.rv <= rv} ELSE keys

\* The version-match filter (lines 381-413 and 511-543).
VersionFilter(keys, match, rv) ==
    CASE match = MatchExact -> {k \in keys : k.rv = rv}
      [] match = MatchNotOlderThan ->
            IF rv > 0 THEN {k \in keys : k.rv >= rv} ELSE keys
      [] OTHER ->
            IF rv > 0 THEN {k \in keys : k.rv <= rv} ELSE keys

\* LiveWindow keeping the latest delete itself.
LiveWindowInclusive(keys, req) ==
    LET deletes == {k.rv : k \in {x \in keys : x.action = DataActionDeleted}}
        latestDeleteRV == IF deletes = {} THEN 0 ELSE Max(deletes)
    IN  IF req.rv = 0 /\ req.match # MatchExact /\ latestDeleteRV > 0
        THEN {k \in keys : k.rv >= latestDeleteRV}
        ELSE keys

\* Lines 415-433: drop the entries at or before the latest delete.
LiveWindow(keys, req) ==
    LET useLatestDeletionAsMinRV ==
            /\ req.rv = 0
            /\ req.source # ListRequest_TRASH
            /\ req.match # MatchExact
        deletes == {k.rv : k \in {x \in keys : x.action = DataActionDeleted}}
        latestDeleteRV == IF deletes = {} THEN 0 ELSE Max(deletes)
    IN  IF useLatestDeletionAsMinRV /\ latestDeleteRV > 0
        THEN {k \in keys : k.rv > latestDeleteRV}
        ELSE keys

\* Paged keeping the entry at lastSeenRV.
PagedInclusive(sorted, lastSeenRV, sortAscending) ==
    SelectSeq(sorted, LAMBDA k :
        \/ lastSeenRV = 0
        \/ sortAscending /\ k.rv >= lastSeenRV
        \/ ~sortAscending /\ k.rv <= lastSeenRV)

\* Lines 446-456 and 556-566: keep the entries beyond lastSeenRV.
Paged(sorted, lastSeenRV, sortAscending) ==
    SelectSeq(sorted, LAMBDA k :
        \/ lastSeenRV = 0
        \/ sortAscending /\ k.rv > lastSeenRV
        \/ ~sortAscending /\ k.rv < lastSeenRV)

\* TrashKeys without the liveness lookup.
TrashKeysOfLive(historyKeys, k, lookupFail) ==
    LET deletedKeys == {x \in historyKeys : x.action = DataActionDeleted}
    IN  IF deletedKeys # {}
        THEN {CHOOSE d \in deletedKeys : d.rv = Max({x.rv : x \in deletedKeys})}
        ELSE {}

\* Lines 476-508: the latest delete of an object that is not live.
TrashKeys(historyKeys, k, lookupFail) ==
    LET deletedKeys == {x \in historyKeys : x.action = DataActionDeleted}
        found == GetLatestResourceKey(k)
    IN  IF ~lookupFail /\ found.err = ErrNotFound /\ deletedKeys # {}
        THEN {CHOOSE d \in deletedKeys : d.rv = Max({x.rv : x \in deletedKeys})}
        ELSE {}

HistoryError(err) == [err |-> err, listRV |-> 0, keys |-> <<>>, sortAscending |-> FALSE]

\* ListHistoryKeys without the check of Exact matching for an explicit
\* resource version.
ListHistoryKeysUnchecked(req, listRV, scanFail, lookupFail) ==
    LET key == req.key
        decoded == GetContinueToken(req.token)
        hasToken == req.token # NoToken
        lastSeenRV == IF hasToken THEN decoded.token.ResourceVersion ELSE 0
        sortAscending == IF hasToken THEN decoded.token.SortAscending
                         ELSE req.match = MatchNotOlderThan
        historyKeys == DataKeys(key)
        chosen == IF req.source = ListRequest_TRASH
                  THEN VersionFilter(TrashKeys(historyKeys, key, lookupFail),
                                     req.match, req.rv)
                  ELSE LiveWindow(VersionFilter(historyKeys, req.match, req.rv), req)
    IN  IF key = NoKey THEN HistoryError("missing options or key in ListRequest")
        ELSE IF key.group = 0 THEN HistoryError("group is required")
        ELSE IF key.name = 0 THEN HistoryError("name is required")
        ELSE IF hasToken /\ decoded.err # ErrNone THEN HistoryError("invalid continue token")
        ELSE IF scanFail THEN HistoryError("data store")
        ELSE [err |-> ErrNone, listRV |-> listRV,
              keys |-> Paged(SortByRV(chosen, sortAscending), lastSeenRV, sortAscending),
              sortAscending |-> sortAscending]

\* Lines 325-473 and 476-583: the keys handed to the iterator.
\* scanFail is a failure of dataStore.Keys, lookupFail one of the
\* liveness lookup of the trash; listRV is the version minted at line 356.
ListHistoryKeys(req, listRV, scanFail, lookupFail) ==
    LET key == req.key
        decoded == GetContinueToken(req.token)
        hasToken == req.token # NoToken
        lastSeenRV == IF hasToken THEN decoded.token.ResourceVersion ELSE 0
        sortAscending == IF hasToken THEN decoded.token.SortAscending
                         ELSE req.match = MatchNotOlderThan
        historyKeys == DataKeys(key)
        chosen == IF req.source = ListRequest_TRASH
                  THEN VersionFilter(TrashKeys(historyKeys, key, lookupFail),
                                     req.match, req.rv)
                  ELSE LiveWindow(VersionFilter(historyKeys, req.match, req.rv), req)
    IN  IF key = NoKey THEN HistoryError("missing options or key in ListRequest")
        ELSE IF key.group = 0 THEN HistoryError("group is required")
        ELSE IF key.name = 0 THEN HistoryError("name is required")
        ELSE IF hasToken /\ decoded.err # ErrNone THEN HistoryError("invalid continue token")
        ELSE IF scanFail THEN HistoryError("data store")
        ELSE IF req.match = MatchExact /\ req.rv <= 0
        THEN HistoryError("expecting an explicit resource version query when using Exact matching")
        ELSE [err |-> ErrNone, listRV |-> listRV,
              keys |-> Paged(SortByRV(chosen, sortAscending), lastSeenRV, sortAscending),
              sortAscending |-> sortAscending]

\* Whether the call reaches line 356, where the list version is minted.
HistoryMints(req) ==
    /\ req.key # NoKey /\ req.key.group # 0 /\ req.key.name # 0
    /\ req.token = NoToken \/ GetContinueToken(req.token).err = ErrNone

\* kvHistoryIterator.Next for the entry at a position (lines 601-640):
\* the payload is fetched and the folder is read from the payload.
HistoryEntry(key) ==
    LET data == DataGet(key.key, key.rv, key.action)
    IN  [err |-> data.err, key |-> key.key, rv |-> key.rv,
         value |-> data.value, folder |-> data.value.folder]

\* kvHistoryIterator.ContinueToken (lines 646-656) at a position.
HistoryContinueToken(keys, currentIndex, sortAscending) ==
    IF currentIndex < 1 \/ currentIndex > Len(keys) THEN NoToken
    ELSE TokenString(ContinueToken(keys[currentIndex].rv, keys[currentIndex].rv,
                                   sortAscending))

\* The visit callback of the server: it takes entries until the limit is
\* reached (limit 0: all of them) and asks for the token at the last one
\* when an entry is left over.
Consumed(n, limit) == IF limit > 0 /\ limit < n THEN limit ELSE n

\* The error of the liveness lookup of the trash (line 487), "" when the
\* call does not get there.
TrashLookupError(req, scanFail, lookupFail) ==
    IF ~HistoryMints(req) \/ scanFail \/ req.source # ListRequest_TRASH THEN ""
    ELSE IF lookupFail THEN "metadata store"
    ELSE GetLatestResourceKey(req.key).err

ListHistory(req, listRV, scanFail, lookupFail) ==
    LET iter == ListHistoryKeys(req, listRV, scanFail, lookupFail)
        n == Consumed(Len(iter.keys), req.limit)
    IN  [req |-> req, err |-> iter.err, listRV |-> iter.listRV,
         items |-> [i \in 1..n |-> HistoryEntry(iter.keys[i])],
         token |-> IF n < Len(iter.keys)
                   THEN HistoryContinueToken(iter.keys, n, iter.sortAscending)
                   ELSE NoToken,
         lookupErr |-> TrashLookupError(req, scanFail, lookupFail)]

DoListHistory(reqs, cap, faults) ==
    /\ \E req \in reqs, sf \in faults, lf \in faults :
           IF HistoryMints(req)
           THEN /\ snowflake < cap
                /\ snowflake' = snowflake + 1
                /\ history' = ListHistory(req, snowflake + 1, sf, lf)
           ELSE /\ history' = ListHistory(req, 0, sf, lf)
                /\ UNCHANGED snowflake
    /\ readResp' = NoRead
    /\ UNCHANGED <<stores, writers, written, lister, stats, pager, watch>>

\* The ResourceKey of a request with its four fields (0: empty), and the
\* request that carries no options or no key.
FullKey(ns, g, r, n) == [namespace |-> ns, group |-> g, resource |-> r, name |-> n]
NilKey == [nil |-> TRUE]

\* RequestKeyError that accepts an empty namespace.
RequestKeyErrorAnyNamespace(key) ==
    IF key = NilKey THEN "missing options or key in ListRequest"
    ELSE IF key.group = 0 THEN "group is required"
    ELSE IF key.resource = 0 THEN "resource is required"
    ELSE IF key.name = 0 THEN "name is required"
    ELSE ErrNone

\* Lines 326-341: the checks of the request's key.
RequestKeyError(key) ==
    IF key = NilKey THEN "missing options or key in ListRequest"
    ELSE IF key.group = 0 THEN "group is required"
    ELSE IF key.resource = 0 THEN "resource is required"
    ELSE IF key.namespace = 0 THEN "namespace is required"
    ELSE IF key.name = 0 THEN "name is required"
    ELSE ErrNone

\* ListHistory called with a full ResourceKey: the checks of the key come
\* first, the rest works on the object the key names.
DoListHistoryOf(keys, sources, cap, faults) ==
    /\ \E key \in keys, src \in sources, sf \in faults, lf \in faults :
           LET keyErr == RequestKeyError(key)
               req == ListRequest(IF keyErr = ErrNone THEN Key(key.group, key.name)
                                  ELSE NoKey,
                                  src, MatchUnset, 0, 0, NoToken)
           IN  IF keyErr # ErrNone
               THEN /\ history' = [ListHistory(req, 0, sf, lf) EXCEPT
                                       !.req.key = key, !.err = keyErr]
                    /\ UNCHANGED snowflake
               ELSE /\ snowflake < cap
                    /\ snowflake' = snowflake + 1
                    /\ history' = [ListHistory(req, snowflake + 1, sf, lf) EXCEPT
                                       !.req.key = key]
    /\ readResp' = NoRead
    /\ UNCHANGED <<stores, writers, written, lister, stats, pager, watch>>

\* A client paging through the history of an object: the first call
\* carries no token, every later call the token of the page before.  The
\* client keeps its first request and the versions it was handed, next
\* to the versions the listing held when it asked for the first page.
ListHistoryPage(req, cap) ==
    /\ snowflake < cap
    /\ snowflake' = snowflake + 1
    /\ LET first == req.token = NoToken
           resp == ListHistory(req, snowflake + 1, FALSE, FALSE)
           whole == ListHistory([req EXCEPT !.limit = 0], snowflake + 1, FALSE, FALSE)
           rvs(items) == [i \in 1..Len(items) |-> items[i].rv]
       IN  pager' = [req |-> IF first THEN req ELSE pager.req,
                     match |-> req.match,
                     token |-> resp.token,
                     got |-> IF first THEN rvs(resp.items)
                             ELSE pager.got \o rvs(resp.items),
                     start |-> IF first THEN rvs(whole.items) ELSE pager.start,
                     pages |-> IF first THEN 1 ELSE pager.pages + 1]
    /\ UNCHANGED <<stores, writers, written, readResp, lister, history, stats, watch>>

\* The calls the paging client can make.
PageRequests(keys, limits) ==
    {ListRequest(k, ListRequest_STORE, m, 0, l, NoToken) :
        k \in keys, m \in {MatchUnset, MatchNotOlderThan}, l \in limits}
    \cup {[pager.req EXCEPT !.token = t] : t \in {pager.token} \ {NoToken}}

----------------------------------------------------------------------------
(* ListIterator *)

\* No response of ListIterator: the error and the list version returned,
\* the entries and the token the callback took, and the error the
\* iterator held when the callback was done with it (kvListIterator.err).
NoList == [err |-> "", listRV |-> 0, items |-> <<>>, token |-> NoToken,
           iterErr |-> ""]

NoRequest == ListRequest(NoKey, "", "", 0, 0, NoToken)

\* The listing client: the call in progress (pc, req, offset,
\* resourceVersion, listRV), the response of its latest call (resp), the
\* response of the call before when that call had the same request (base),
\* and the entries of the pages of the token chain so far (seen) with the
\* offset of the first of them (start).
ListerIdle == [pc |-> "idle", req |-> NoRequest, offset |-> 0,
               resourceVersion |-> 0, listRV |-> 0, resp |-> NoList,
               base |-> NoList, seen |-> <<>>, start |-> 0]

\* The entries seq[from..to] of a sequence, cut at its end.
Slice(seq, from, to) ==
    [i \in 1..(IF to > Len(seq) THEN Len(seq) ELSE to) - from + 1 |-> seq[from + i - 1]]

\* ScanKeys that stops at `limit` entries.
ScanKeysNoExtra(prefix, resourceVersion, offset, limit) ==
    LET all == ListResourceKeysAtRevision(prefix, resourceVersion)
    IN  IF offset >= Len(all) THEN <<>>
        ELSE Slice(all, offset + 1, offset + limit)

\* Lines 206-228: skip `offset` matches, keep up to limit + 1.
ScanKeys(prefix, resourceVersion, offset, limit) ==
    LET all == ListResourceKeysAtRevision(prefix, resourceVersion)
    IN  IF offset >= Len(all) THEN <<>>
        ELSE Slice(all, offset + 1, offset + limit + 1)

\* kvListIterator.Next for the entry at a position (lines 260-291).
ListEntry(metaKey) ==
    LET data == DataGet(metaKey.key, metaKey.rv, metaKey.action)
    IN  [err |-> data.err, key |-> metaKey.key, rv |-> metaKey.rv,
         value |-> data.value, folder |-> metaKey.folder]

\* ContinueToken without the increment of the offset in Next.
ListContinueTokenStale(offset, taken, listRV) ==
    TokenString(ContinueToken(offset, listRV, FALSE))

\* ContinueToken leaving the list version out of the token.
ListContinueTokenUnpinned(offset, taken, listRV) ==
    TokenString(ContinueToken(offset + taken, 0, FALSE))

\* kvListIterator.ContinueToken after `taken` successful Next calls
\* (lines 287-302).
ListContinueToken(offset, taken, listRV) ==
    TokenString(ContinueToken(offset + taken, listRV, FALSE))

\* The requests the client can send: a fresh list, a list pinned to the
\* list version its latest call returned, the next page of its latest
\* call, and its latest request once more.
ListRequests(prefixes, limits) ==
    {ListRequest(k, ListRequest_STORE, MatchUnset, 0, l, NoToken) :
        k \in prefixes, l \in limits}
    \cup {ListRequest(k, ListRequest_STORE, MatchUnset, lister.resp.listRV, l, NoToken) :
        k \in {x \in prefixes : lister.resp.listRV > 0}, l \in limits}
    \cup {ListRequest(lister.req.key, ListRequest_STORE, MatchUnset, 0, lister.req.limit, t) :
        t \in {lister.resp.token} \ {NoToken}}
    \cup ({lister.req} \ {NoRequest})

\* Lines 184-204: decode the token and mint the list version.
ListIteratorBegin(req, cap) ==
    /\ lister.pc = "idle"
    /\ LET decoded == GetContinueToken(req.token)
           hasToken == req.token # NoToken
           offset == IF hasToken THEN decoded.token.StartOffset ELSE 0
           resourceVersion == IF hasToken THEN decoded.token.ResourceVersion ELSE req.rv
           chained == hasToken /\ req.token = lister.resp.token
           repeated == req = lister.req /\ lister.resp.err = ErrNone
       IN  IF req.key = NoKey
           THEN /\ lister' = [ListerIdle EXCEPT !.req = req,
                       !.resp = [NoList EXCEPT !.err = "missing options or key in ListRequest"]]
                /\ UNCHANGED snowflake
           ELSE IF hasToken /\ decoded.err # ErrNone
           THEN /\ lister' = [ListerIdle EXCEPT !.req = req,
                       !.resp = [NoList EXCEPT !.err = "invalid continue token"]]
                /\ UNCHANGED snowflake
           ELSE /\ snowflake < cap
                /\ snowflake' = snowflake + 1
                /\ lister' = [lister EXCEPT
                       !.pc = "scan", !.req = req, !.offset = offset,
                       !.resourceVersion = resourceVersion,
                       !.listRV = IF resourceVersion > 0 THEN resourceVersion
                                  ELSE snowflake + 1,
                       !.base = IF repeated THEN lister.resp ELSE NoList,
                       !.seen = IF chained THEN lister.seen ELSE <<>>,
                       !.start = IF chained THEN lister.start ELSE offset]
    /\ UNCHANGED <<stores, writers, written, readResp, history, stats, pager, watch>>

\* The revision the metadata scan of line 209 is given.
ScanRevision == lister.resourceVersion

\* Lines 206-242: scan the metadata store, hand the iterator to the
\* callback and return the list version.
ListIteratorScan(faults) ==
    /\ lister.pc = "scan"
    /\ \E scanFail \in faults :
       LET keys == ScanKeys(lister.req.key, ScanRevision, lister.offset, lister.req.limit)
           n == Consumed(Len(keys), lister.req.limit)
           items == [i \in 1..n |-> ListEntry(keys[i])]
           resp == IF scanFail THEN [NoList EXCEPT !.err = "metadata store"]
                   ELSE [err |-> ErrNone, listRV |-> lister.listRV, items |-> items,
                         token |-> IF n < Len(keys)
                                   THEN ListContinueToken(lister.offset, n, lister.listRV)
                                   ELSE NoToken,
                         iterErr |-> ErrNone]
       IN  lister' = [lister EXCEPT !.pc = "idle", !.resp = resp,
                                    !.seen = lister.seen \o resp.items]
    /\ UNCHANGED <<snowflake, stores, writers, written, readResp, history, stats, pager, watch>>

\* kvListIterator.Error (lines 293-295), given the error the iterator holds.
ListIteratorError(err) == ErrNone

\* Lines 260-291 and 236-242: dataStore.Get or io.ReadAll fails at one of
\* the entries the callback asks for.  Next returns false there; the
\* callback, which took the entries before it, asks Error() and returns
\* what it says.
ListIteratorFetchError ==
    /\ lister.pc = "scan"
    /\ LET keys == ScanKeys(lister.req.key, ScanRevision, lister.offset, lister.req.limit)
           n == Consumed(Len(keys), lister.req.limit)
           failure == "data store"
           reported == ListIteratorError(failure)
       IN  \E j \in 1..n :
           LET resp == IF reported # ErrNone
                       THEN [NoList EXCEPT !.err = reported, !.iterErr = failure]
                       ELSE [err |-> ErrNone, listRV |-> lister.listRV,
                             items |-> [i \in 1..(j - 1) |-> ListEntry(keys[i])],
                             token |-> NoToken, iterErr |-> failure]
           IN  lister' = [lister EXCEPT !.pc = "idle", !.resp = resp,
                                        !.seen = lister.seen \o resp.items]
    /\ UNCHANGED <<snowflake, stores, writers, written, readResp, history, stats, pager, watch>>

\* Lines 236-240: the callback returns an error; ListIterator returns 0
\* and that error.
ListIteratorCallbackError ==
    /\ lister.pc = "scan"
    /\ lister' = [lister EXCEPT !.pc = "idle",
                                !.resp = [NoList EXCEPT !.err = "callback"]]
    /\ UNCHANGED <<snowflake, stores, writers, written, readResp, history, stats, pager, watch>>

----------------------------------------------------------------------------
(* GetResourceStats *)

\* dataStore.Keys over the namespace: the data keys in store order, by
\* group and resource kind, then by name, then by resource version.
DataKeyBefore(a, b) ==
    \/ KeyBefore(a.key, b.key)
    \/ a.key = b.key /\ a.rv < b.rv

RECURSIVE SortDataKeys(_)
SortDataKeys(S) ==
    IF S = {} THEN <<>>
    ELSE LET first == CHOOSE k \in S : \A o \in S \ {k} : DataKeyBefore(k, o)
         IN  <<first>> \o SortDataKeys(S \ {first})

DataKeysOfNamespace ==
    SortDataKeys({[key |-> d.key, rv |-> d.rv, action |-> d.action] : d \in dataStore})

\* Lines 746-757: the scan.  res maps each object to whether the last
\* key seen for it is not a deletion, rvs maps each group and resource
\* kind to the resource version of the last key seen for it.
RECURSIVE StatsScan(_, _)
StatsScan(keys, acc) ==
    IF keys = <<>> THEN acc
    ELSE LET dataKey == Head(keys)
             key == dataKey.key.group
             res == [k \in DOMAIN acc.res \cup {dataKey.key} |->
                        IF k = dataKey.key THEN dataKey.action # DataActionDeleted
                        ELSE acc.res[k]]
             rvs == [g \in DOMAIN acc.rvs \cup {key} |->
                        IF g = key THEN dataKey.rv ELSE acc.rvs[g]]
         IN  StatsScan(Tail(keys), [res |-> res, rvs |-> rvs])

\* GetResourceStats emitting the rows whose count reaches minCount.
GetResourceStatsAtLeast(minCount, scanFail) ==
    LET acc == StatsScan(DataKeysOfNamespace, [res |-> <<>>, rvs |-> <<>>])
        count(g) == Cardinality({k \in DOMAIN acc.res : k.group = g /\ acc.res[k]})
    IN  [asked |-> TRUE, minCount |-> minCount, err |-> ErrNone,
         rows |-> {[group |-> g, count |-> count(g), rv |-> acc.rvs[g]] :
                      g \in {x \in DOMAIN acc.rvs : count(x) >= minCount}}]

\* Lines 740-781.  scanFail is a failure of dataStore.Keys.  The rows are
\* appended in the iteration order of a map, so they are a set here.
GetResourceStats(minCount, scanFail) ==
    IF scanFail
    THEN [asked |-> TRUE, minCount |-> minCount, err |-> "data store", rows |-> {}]
    ELSE LET acc == StatsScan(DataKeysOfNamespace, [res |-> <<>>, rvs |-> <<>>])
             count(g) == Cardinality({k \in DOMAIN acc.res : k.group = g /\ acc.res[k]})
         IN  [asked |-> TRUE, minCount |-> minCount, err |-> ErrNone,
              rows |-> {[group |-> g, count |-> count(g), rv |-> acc.rvs[g]] :
                           g \in {x \in DOMAIN acc.rvs : count(x) > minCount}}]

DoGetResourceStats(minCounts, faults) ==
    /\ \E minCount \in minCounts, sf \in faults :
           stats' = GetResourceStats(minCount, sf)
    /\ UNCHANGED <<snowflake, stores, writers, written, readResp, lister,
                   history, pager, watch>>

----------------------------------------------------------------------------
(* WatchWriteEvents *)

\* Lines 685-689 and 735: subscribe to the notifier and start the
\* forwarding goroutine.  The notifier streams the EventRecords saved
\* after the subscription.
WatchWriteEvents ==
    /\ watch.pc = "none"
    /\ watch' = [NoWatch EXCEPT !.pc = "range", !.ctx = "live",
                                !.notified = {e.rv : e \in eventStore}]
    /\ UNCHANGED <<snowflake, stores, writers, written, readResp, lister,
                   history, stats, pager>>

\* The caller cancels the context it passed to WatchWriteEvents.
Cancel ==
    /\ watch.ctx = "live"
    /\ watch' = [watch EXCEPT !.ctx = "cancelled"]
    /\ UNCHANGED <<snowflake, stores, writers, written, readResp, lister,
                   history, stats, pager>>

\* notifier.Watch: the oldest EventRecord not yet streamed is put on the
\* notifier's bounded channel.
NotifierSend ==
    /\ watch.ctx = "live"
    /\ Len(watch.notifierEvents) < NotifierBuffer
    /\ \E e \in eventStore :
           /\ e.rv \notin watch.notified
           /\ \A o \in eventStore : o.rv \notin watch.notified => e.rv <= o.rv
           /\ watch' = [watch EXCEPT !.notifierEvents = Append(@, e),
                                     !.notified = @ \cup {e.rv}]
    /\ UNCHANGED <<snowflake, stores, writers, written, readResp, lister,
                   history, stats, pager>>

\* notifier.Watch: the notifier closes its channel once the context is
\* cancelled.
NotifierClose ==
    /\ watch.ctx = "cancelled"
    /\ ~watch.notifierClosed
    /\ watch' = [watch EXCEPT !.notifierClosed = TRUE]
    /\ UNCHANGED <<snowflake, stores, writers, written, readResp, lister,
                   history, stats, pager>>

\* WatchEventType always answering ADDED.
WatchEventTypeAdded(action) == WatchEvent_ADDED

\* Lines 707-715: the event type of an action; the switch has no default,
\* so any other action leaves the zero value.
WatchEventType(action) ==
    CASE action = DataActionCreated -> WatchEvent_ADDED
      [] action = DataActionUpdated -> WatchEvent_MODIFIED
      [] action = DataActionDeleted -> WatchEvent_DELETED
      [] OTHER -> ""

\* Lines 718-731: the WrittenEvent built from an event and its payload.
WrittenEvent(event, data) ==
    [key |-> event.key, type |-> WatchEventType(event.action),
     folder |-> event.folder, value |-> data,
     rv |-> event.rv, previousRV |-> event.previousRV]

\* Lines 691-716: the goroutine takes the next event of the notifier and
\* fetches its payload; when the fetch fails it returns, without closing
\* its output channel.
ForwardReceive(faults) ==
    /\ watch.pc = "range"
    /\ watch.notifierEvents # <<>>
    /\ LET event == Head(watch.notifierEvents)
           data == DataGet(event.key, event.rv, event.action)
       IN  \E fail \in faults :
           IF fail \/ data.err # ErrNone
           THEN watch' = [watch EXCEPT !.notifierEvents = Tail(@),
                                       !.pc = "returned"]
           ELSE watch' = [watch EXCEPT !.notifierEvents = Tail(@),
                                       !.pending = <<WrittenEvent(event, data.value)>>,
                                       !.pc = "send"]
    /\ UNCHANGED <<snowflake, stores, writers, written, readResp, lister,
                   history, stats, pager>>

\* Line 718: the send on the output channel, which blocks while the
\* buffer is full.
ForwardSend ==
    /\ watch.pc = "send"
    /\ Len(watch.events) < EventsBuffer
    /\ watch' = [watch EXCEPT !.events = Append(@, watch.pending[1]),
                              !.pending = <<>>, !.pc = "range"]
    /\ UNCHANGED <<snowflake, stores, writers, written, readResp, lister,
                   history, stats, pager>>

\* Lines 691 and 733: the range loop ends when the notifier's channel is
\* closed and drained, and the output channel is closed.
ForwardClose ==
    /\ watch.pc = "range"
    /\ watch.notifierEvents = <<>>
    /\ watch.notifierClosed
    /\ watch' = [watch EXCEPT !.pc = "done", !.closed = TRUE]
    /\ UNCHANGED <<snowflake, stores, writers, written, readResp, lister,
                   history, stats, pager>>

\* The consumer takes the next WrittenEvent off the output channel.
Consume ==
    /\ watch.events # <<>>
    /\ watch' = [watch EXCEPT !.events = Tail(@)]
    /\ UNCHANGED <<snowflake, stores, writers, written, readResp, lister,
                   history, stats, pager>>

----------------------------------------------------------------------------
(* Specifications *)

Groups == {1}
AllKeys == {Key(g, n) : g \in Groups, n \in Names}

Init ==
    /\ snowflake = 0
    /\ dataStore = {}
    /\ metaStore = {}
    /\ eventStore = {}
    /\ writers = [w \in Writers |-> Idle]
    /\ written = {}
    /\ readResp = NoRead
    /\ lister = ListerIdle
    /\ history = NoHistory
    /\ stats = NoStats
    /\ pager = NoPager
    /\ watch = NoWatch

\* No call is in progress.
Quiet == lister.pc = "idle" /\ \A w \in Writers : writers[w].pc = "idle"

NoFaults == {FALSE}
Faults == {FALSE, TRUE}

\* One writer step after the event was accepted.
WriteEventStep(w, faults) ==
    \/ WriteEventSwitch(w, faults)
    \/ WriteEventData(w, NoFaults, faults)
    \/ WriteEventMeta(w, faults)
    \/ WriteEventSave(w, faults)

(* Sequential callers of WriteEvent and ReadResource; the existence    *)
(* lookup of an ADDED event may fail.                                   *)
SeqKeys == {Key(1, n) : n \in 1..2}
SeqEvents ==
    {Event(t, Key(1, 1), Payload(b, 1), 1, 0) :
        t \in {WatchEvent_ADDED, WatchEvent_MODIFIED, WatchEvent_DELETED}, b \in Bodies}
    \cup {Event(t, Key(1, 2), Payload(1, 1), 1, 0) :
        t \in {WatchEvent_ADDED, WatchEvent_DELETED}}

SeqWrite ==
    \/ WriteEventSwitch(1, Faults)
    \/ WriteEventData(1, NoFaults, NoFaults)
    \/ WriteEventMeta(1, NoFaults)
    \/ WriteEventSave(1, NoFaults)

SeqNext ==
    \/ Quiet /\ \E e \in SeqEvents : WriteEventBegin(1, e, MaxRV)
    \/ SeqWrite
    \/ Quiet /\ readResp = NoRead /\ DoReadResource(SeqKeys, NoFaults)

SpecSeq == Init /\ [][SeqNext]_vars

(* Sequential callers of WriteEvent and ListHistory, no store failure. *)
HistKeys == {Key(1, n) : n \in 1..2}
HistEvents ==
    {Event(t, Key(1, 1), Payload(1, 1), 1, 0) :
        t \in {WatchEvent_ADDED, WatchEvent_MODIFIED, WatchEvent_DELETED}}
    \cup {Event(t, Key(1, 2), Payload(2, 1), 1, 0) :
        t \in {WatchEvent_ADDED, WatchEvent_DELETED}}

HistoryRequests(keys) ==
    {ListRequest(k, src, m, 0, 0, NoToken) :
        k \in keys, src \in {ListRequest_STORE, ListRequest_TRASH},
        m \in {MatchUnset, MatchNotOlderThan}}

HistNext ==
    \/ Quiet /\ \E e \in HistEvents : WriteEventBegin(1, e, MaxHistRV)
    \/ WriteEventStep(1, NoFaults)
    \/ Quiet /\ history = NoHistory
             /\ DoListHistory(HistoryRequests(HistKeys), MaxHistRV, NoFaults)

SpecHist == Init /\ [][HistNext]_vars

(* Concurrent callers: the writers and the listing client run their    *)
(* calls step by step in any interleaving, no store failure.            *)
ConcEvents ==
    {Event(t, Key(1, 1), Payload(1, 1), 1, 0) :
        t \in {WatchEvent_ADDED, WatchEvent_DELETED}}
    \cup {Event(WatchEvent_ADDED, Key(1, 2), Payload(2, 1), 1, 0)}

ConcPrefixes == {Key(1, 0)}
ConcLimits == {1}

Next ==
    \/ \E w \in Writers, e \in ConcEvents : WriteEventBegin(w, e, MaxConcRV)
    \/ \E w \in Writers : WriteEventStep(w, NoFaults)
    \/ \E req \in ListRequests(ConcPrefixes, ConcLimits) : ListIteratorBegin(req, MaxConcRV)
    \/ ListIteratorScan(NoFaults)
    \/ ListIteratorCallbackError

Spec == Init /\ [][Next]_vars

(* Sequential callers of WriteEvent and ListIterator; the writes stop  *)
(* at MaxListWrites, the pages go on.                                   *)
ListEvents ==
    {Event(WatchEvent_ADDED, Key(1, n), Payload(1, 1), 1, 0) : n \in Names}
    \cup {Event(WatchEvent_DELETED, Key(1, 2), Payload(2, 1), 1, 0)}

ListPrefixes == {Key(1, 0)}
ListLimits == {1, 2}

ListNext ==
    \/ Quiet /\ \E e \in ListEvents : WriteEventBegin(1, e, MaxListWrites)
    \/ WriteEventStep(1, NoFaults)
    \/ Quiet /\ \E req \in ListRequests(ListPrefixes, ListLimits) :
                    ListIteratorBegin(req, MaxListRV)
    \/ ListIteratorScan(NoFaults)
    \/ ListIteratorCallbackError

SpecList == Init /\ [][ListNext]_vars

(* Sequential callers of WriteEvent and GetResourceStats over two     *)
(* resource kinds; the scan of the data keys may fail.                  *)
StatsEvents ==
    {Event(WatchEvent_ADDED, Key(1, n), Payload(1, 1), 1, 0) : n \in {1, 2, 3}}
    \cup {Event(WatchEvent_DELETED, Key(1, n), Payload(1, 1), 1, 0) : n \in {3, 4, 5}}
    \cup {Event(WatchEvent_ADDED, Key(2, 1), Payload(1, 1), 1, 0)}

MinCounts == {0, 1}

StatsNext ==
    \/ Quiet /\ \E e \in StatsEvents : WriteEventBegin(1, e, MaxStatsRV)
    \/ WriteEventStep(1, NoFaults)
    \/ Quiet /\ ~stats.asked /\ DoGetResourceStats(MinCounts, Faults)

SpecStats == Init /\ [][StatsNext]_vars

(* Concurrent callers of WriteEvent whose events may be invalid and   *)
(* whose store calls may fail at every step, next to callers of         *)
(* ListIterator and ListHistory, which mint list versions.              *)
FaultEvents ==
    {Event(t, Key(1, 1), Payload(1, 1), 1, 0) :
        t \in {WatchEvent_ADDED, WatchEvent_BOOKMARK}}
    \cup {Event(WatchEvent_MODIFIED, Key(1, 2), Payload(2, 1), 2, 1),
          Event(WatchEvent_ADDED, NoKey, Payload(1, 1), 1, 0)}

FaultListRequests ==
    {ListRequest(Key(1, 0), ListRequest_STORE, MatchUnset, 0, 1, NoToken)}

FaultHistoryRequests ==
    {ListRequest(Key(1, 1), ListRequest_STORE, MatchUnset, 0, 0, NoToken)}

FaultNext ==
    \/ \E w \in Writers, e \in FaultEvents : WriteEventBegin(w, e, MaxFaultRV)
    \/ \E w \in Writers : WriteEventSwitch(w, Faults)
    \/ \E w \in Writers : WriteEventData(w, Faults, Faults)
    \/ \E w \in Writers : WriteEventMeta(w, Faults)
    \/ \E w \in Writers : WriteEventSave(w, Faults)
    \/ lister.listRV = 0 /\ \E req \in FaultListRequests : ListIteratorBegin(req, MaxFaultRV)
    \/ ListIteratorScan(NoFaults)
    \/ history = NoHistory /\ DoListHistory(FaultHistoryRequests, MaxFaultRV, NoFaults)

SpecFault == Init /\ [][FaultNext]_vars

(* Sequential callers: writes whose metadata or event save may fail,  *)
(* and the four readers.                                                *)
DanglingKeys == {Key(1, n) : n \in 1..2}
DanglingEvents ==
    {Event(t, Key(1, 1), Payload(1, 1), 1, 0) :
        t \in {WatchEvent_ADDED, WatchEvent_DELETED}}
    \cup {Event(WatchEvent_MODIFIED, Key(1, 2), Payload(2, 1), 1, 0)}

DanglingNext ==
    \/ Quiet /\ \E e \in DanglingEvents : WriteEventBegin(1, e, MaxDanglingRV)
    \/ WriteEventSwitch(1, NoFaults)
    \/ WriteEventData(1, NoFaults, NoFaults)
    \/ WriteEventMeta(1, Faults)
    \/ WriteEventSave(1, Faults)
    \/ Quiet /\ readResp = NoRead /\ DoReadResource(DanglingKeys, NoFaults)
    \/ Quiet /\ history = NoHistory
             /\ DoListHistory(HistoryRequests(DanglingKeys), MaxDanglingRV, NoFaults)
    \/ Quiet /\ ~stats.asked /\ DoGetResourceStats(MinCounts, NoFaults)
    \/ Quiet /\ \E req \in FaultListRequests : ListIteratorBegin(req, MaxDanglingRV)
    \/ ListIteratorScan(NoFaults)

SpecDangling == Init /\ [][DanglingNext]_vars

(* Sequential callers: writes to one object between the pages of a   *)
(* client paging through its history.                                   *)
PageEvents ==
    {Event(t, Key(1, 1), Payload(1, 1), 1, 0) :
        t \in {WatchEvent_ADDED, WatchEvent_MODIFIED, WatchEvent_DELETED}}

PageNext ==
    \/ Quiet /\ \E e \in PageEvents : WriteEventBegin(1, e, MaxPageRV)
    \/ WriteEventStep(1, NoFaults)
    \/ Quiet /\ \E req \in PageRequests({Key(1, 1)}, {1}) : ListHistoryPage(req, MaxPageRV)

SpecPage == Init /\ [][PageNext]_vars

(* A watcher next to a sequential writer.  The notifier and the       *)
(* forwarding goroutine are scheduled fairly; the consumer and the      *)
(* caller who cancels are not: they may stop at any time.               *)
WatchEvents ==
    {Event(WatchEvent_ADDED, Key(1, 1), Payload(1, 1), 1, 0),
     Event(WatchEvent_MODIFIED, Key(1, 1), Payload(2, 2), 2, 1),
     Event(WatchEvent_DELETED, Key(1, 1), Payload(1, 2), 2, 2)}

Forwarder ==
    \/ ForwardReceive(Faults)
    \/ ForwardSend
    \/ ForwardClose

Notifier == NotifierSend \/ NotifierClose

WatchNext ==
    \/ Quiet /\ \E e \in WatchEvents : WriteEventBegin(1, e, MaxWatchRV)
    \/ WriteEventStep(1, NoFaults)
    \/ WatchWriteEvents
    \/ Cancel
    \/ NotifierSend
    \/ NotifierClose
    \/ ForwardReceive(Faults)
    \/ ForwardSend
    \/ ForwardClose
    \/ Consume

SpecWatch ==
    Init /\ [][WatchNext]_vars /\ WF_vars(Notifier) /\ WF_vars(Forwarder)

(* Every operation of the backend next to a sequential writer whose   *)
(* saves may fail.                                                      *)
AllEvents ==
    {Event(t, Key(1, 1), Payload(1, 1), 1, 0) :
        t \in {WatchEvent_ADDED, WatchEvent_DELETED}}

AllNext ==
    \/ Quiet /\ \E e \in AllEvents : WriteEventBegin(1, e, MaxAllRV)
    \/ WriteEventStep(1, Faults)
    \/ Quiet /\ readResp = NoRead /\ DoReadResource({Key(1, 1)}, NoFaults)
    \/ Quiet /\ history = NoHistory
             /\ DoListHistory(HistoryRequests({Key(1, 1)}), MaxAllRV, NoFaults)
    \/ Quiet /\ ~stats.asked /\ DoGetResourceStats({0}, NoFaults)
    \/ Quiet /\ lister.listRV = 0
             /\ \E req \in FaultListRequests : ListIteratorBegin(req, MaxAllRV)
    \/ ListIteratorScan(NoFaults)
    \/ WatchWriteEvents
    \/ Cancel
    \/ NotifierSend
    \/ NotifierClose
    \/ ForwardReceive(NoFaults)
    \/ ForwardSend
    \/ ForwardClose
    \/ Consume

SpecAll == Init /\ [][AllNext]_vars

(* The history of one object under every version match: the writes    *)
(* come first, then either single calls or a client that pages with no  *)
(* write in between.                                                    *)
MatchEvents ==
    {Event(t, Key(1, 1), Payload(1, 1), 1, 0) :
        t \in {WatchEvent_ADDED, WatchEvent_MODIFIED, WatchEvent_DELETED}}

Matches_V2 == {MatchUnset, MatchNotOlderThan, MatchNotNewerThan, MatchExact}

\* Single calls: every source, match and resource version, a negative
\* version for Exact included.
MatchHistoryRequests ==
    {ListRequest(Key(1, 1), src, m, rv, 0, NoToken) :
        src \in {ListRequest_STORE, ListRequest_TRASH},
        m \in Matches_V2, rv \in 0..MaxMatchWrites}
    \cup {ListRequest(Key(1, 1), src, MatchExact, 0 - 1, 0, NoToken) :
        src \in {ListRequest_STORE, ListRequest_TRASH}}

\* The calls of the paging client: a first page, or the next page with
\* the token of the page before.  A client that asked with no resource
\* version may name another match on the next page.
MatchPageRequests ==
    {ListRequest(Key(1, 1), ListRequest_STORE, m, rv, l, NoToken) :
        m \in Matches_V2 \ {MatchExact}, rv \in {0, 2}, l \in {1, 2}}
    \cup {[pager.req EXCEPT !.token = t, !.match = m] :
            t \in {pager.token} \ {NoToken},
            m \in IF pager.req.rv = 0 THEN Matches_V2 \ {MatchExact}
                  ELSE {pager.req.match}}

MatchNext ==
    \/ Quiet /\ pager.pages = 0
             /\ \E e \in MatchEvents : WriteEventBegin(1, e, MaxMatchWrites)
    \/ WriteEventStep(1, NoFaults)
    \/ Quiet /\ history = NoHistory /\ pager.pages = 0
             /\ DoListHistory(MatchHistoryRequests, MaxMatchRV, NoFaults)
    \/ Quiet /\ history = NoHistory
             /\ \E req \in MatchPageRequests : ListHistoryPage(req, MaxMatchRV)

SpecMatch == Init /\ [][MatchNext]_vars

(* ListHistory asked with well-formed and malformed keys, next to a    *)
(* sequential writer; the scan and the lookup of the stores may fail.   *)
KeyEvents ==
    {Event(t, Key(1, 1), Payload(1, 1), 1, 0) :
        t \in {WatchEvent_ADDED, WatchEvent_DELETED}}

FullKeys ==
    {FullKey(ns, g, r, n) : ns \in 0..1, g \in 0..1, r \in 0..1, n \in 0..1}
    \cup {NilKey}

KeyNext ==
    \/ Quiet /\ \E e \in KeyEvents : WriteEventBegin(1, e, MaxKeyRV)
    \/ WriteEventStep(1, NoFaults)
    \/ Quiet /\ DoListHistoryOf(FullKeys, {ListRequest_STORE, ListRequest_TRASH},
                                MaxKeyRV, Faults)

SpecKey == Init /\ [][KeyNext]_vars

(* ReadResource whose store calls may fail, next to a sequential       *)
(* writer; the folder of an event differs from the one in its payload.  *)
ReadKeys == {Key(1, n) : n \in 1..2}
ReadEvents ==
    {Event(WatchEvent_ADDED, Key(1, 1), Payload(1, 1), 2, 0),
     Event(WatchEvent_MODIFIED, Key(1, 1), Payload(2, 2), 1, 1),
     Event(WatchEvent_DELETED, Key(1, 1), Payload(1, 1), 2, 0)}

ReadNext ==
    \/ Quiet /\ \E e \in ReadEvents : WriteEventBegin(1, e, MaxReadRV)
    \/ WriteEventStep(1, NoFaults)
    \/ Quiet /\ readResp = NoRead /\ DoReadResource(ReadKeys, Faults)

SpecRead == Init /\ [][ReadNext]_vars

(* ListIterator whose payload fetches may fail, next to a sequential   *)
(* writer.                                                              *)
IterLimits == {2}

IterNext ==
    \/ Quiet /\ \E e \in ListEvents : WriteEventBegin(1, e, MaxIterRV)
    \/ WriteEventStep(1, NoFaults)
    \/ Quiet /\ \E req \in ListRequests(ListPrefixes, IterLimits) :
                    ListIteratorBegin(req, MaxIterRV)
    \/ ListIteratorScan(NoFaults)
    \/ ListIteratorFetchError

SpecIter == Init /\ [][IterNext]_vars

----------------------------------------------------------------------------
(* What the callers know: the writes that were acknowledged *)

WrittenOf(k) == {x \in written : x.key = k}

\* The acknowledged writes of a key at or before a version (0: any).
WrittenUpTo(k, rv) == {x \in WrittenOf(k) : rv = 0 \/ x.rv <= rv}

Newest(S) == CHOOSE x \in S : \A y \in S : y.rv <= x.rv

IsUpsert(x) == x.type \in {WatchEvent_ADDED, WatchEvent_MODIFIED}

\* The key's MetaRecord of highest RV is not a deletion.
LiveIn(k) ==
    \E m \in metaStore :
        /\ m.key = k /\ m.action # DataActionDeleted
        /\ \A o \in metaStore : o.key = k => o.rv <= m.rv

Answers(resp, x) ==
    resp.code = StatusOK /\ resp.value = x.value /\ resp.rv = x.rv

----------------------------------------------------------------------------
(* Claims C1-C4, under SpecSeq *)

\* C1: last-write-wins.  After sequential acknowledged writes to a key
\* whose latest write is Created or Updated, ReadResource(key, 0) answers
\* with the payload and the resource version of that latest write.
C1_LastWriteWins ==
    (readResp.key # NoKey /\ readResp.atRV = 0 /\ WrittenOf(readResp.key) # {}) =>
        LET last == Newest(WrittenOf(readResp.key))
        IN  IsUpsert(last) => Answers(readResp.resp, last)

C1_Witness ==
    /\ readResp.atRV = 0
    /\ Cardinality(WrittenOf(readResp.key)) >= 2
    /\ readResp.resp.code = StatusOK
    /\ \E x \in WrittenOf(readResp.key) :
           x.rv < readResp.resp.rv /\ x.value # readResp.resp.value

C4_CreateProtection ==
    [][\A w \in Writers :
        (writers[w].event.type = WatchEvent_ADDED /\ writers'[w] # writers[w]) =>
            LET live == LiveIn(writers[w].event.key)
                failed == [rv |-> 0, err |-> "failed to check if resource exists"]
                exists == [rv |-> 0, err |-> ErrResourceAlreadyExists]
                after == writers'[w]
            IN  /\ writers[w].pc = "switch" =>
                    /\ stores' = stores
                    /\ live => after.pc = "idle" /\ after.ret \in {exists, failed}
                    /\ ~live => \/ after.pc = "data"
                                \/ after.pc = "idle" /\ after.ret = failed
                /\ writers[w].pc = "event" =>
                    /\ after.pc = "idle"
                    /\ after.ret = [rv |-> writers[w].rv, err |-> ErrNone]
                    /\ LiveIn(writers[w].event.key)
      ]_vars

C4_Witness ==
    \E w \in Writers :
        /\ writers[w].pc = "idle"
        /\ writers[w].ret = [rv |-> 0, err |-> ErrResourceAlreadyExists]

----------------------------------------------------------------------------
(* Claims C9-C10, under SpecHist *)

\* The resource versions a history response lists, in order.
ItemRVs(items) == [i \in 1..Len(items) |-> items[i].rv]

Range(f) == {f[i] : i \in DOMAIN f}

\* Every entry carries the key asked for and the payload of the
\* acknowledged write of its resource version, and no version twice.
ItemsAreWrites(resp) ==
    /\ Cardinality(Range(ItemRVs(resp.items))) = Len(resp.items)
    /\ \A i \in 1..Len(resp.items) :
           /\ resp.items[i].key = resp.req.key
           /\ resp.items[i].err = ErrNone
           /\ \E x \in WrittenOf(resp.req.key) :
                  x.rv = resp.items[i].rv /\ x.value = resp.items[i].value

DeletesOf(k) == {x \in WrittenOf(k) : x.type = WatchEvent_DELETED}

\* C9: live history window.  ListHistory in live mode with no resource
\* version lists exactly the key's records of RV greater than the RV of
\* the key's latest Deleted record (all of them if there is none).
C9_LiveHistoryWindow ==
    (/\ history.req.key # NoKey /\ history.req.source = ListRequest_STORE
     /\ history.req.rv = 0 /\ history.req.token = NoToken) =>
        LET k == history.req.key
            floor == IF DeletesOf(k) = {} THEN 0 ELSE Newest(DeletesOf(k)).rv
        IN  /\ history.err = ErrNone
            /\ ItemsAreWrites(history)
            /\ Range(ItemRVs(history.items)) = {x.rv : x \in {y \in WrittenOf(k) : y.rv > floor}}

\* Create, Update, Delete, Create: only the second Create is listed.
C9_Witness ==
    /\ history.req.source = ListRequest_STORE
    /\ Len(history.items) = 1
    /\ \E c1, u, d, c2 \in WrittenOf(history.req.key) :
           /\ c1.type = WatchEvent_ADDED /\ u.type = WatchEvent_MODIFIED
           /\ d.type = WatchEvent_DELETED /\ c2.type = WatchEvent_ADDED
           /\ c1.rv < u.rv /\ u.rv < d.rv /\ d.rv < c2.rv
           /\ history.items[1].rv = c2.rv

\* C10: trash.  ListHistory with Source=TRASH lists exactly one entry,
\* the Deleted record of highest RV, when the object is not live and has a
\* Deleted record, and nothing when the object is live or was never
\* deleted.
C10_Trash ==
    (/\ history.req.key # NoKey /\ history.req.source = ListRequest_TRASH
     /\ history.req.rv = 0 /\ history.req.token = NoToken) =>
        LET k == history.req.key
        IN  /\ history.err = ErrNone
            /\ ItemsAreWrites(history)
            /\ ItemRVs(history.items) =
                   IF ~LiveIn(k) /\ DeletesOf(k) # {}
                   THEN <<Newest(DeletesOf(k)).rv>>
                   ELSE <<>>

\* Two deletes of an object that is not live: the trash holds the later.
C10_Witness ==
    /\ history.req.source = ListRequest_TRASH
    /\ Cardinality(DeletesOf(history.req.key)) >= 2
    /\ Len(history.items) = 1
    /\ history.items[1].rv = Newest(DeletesOf(history.req.key)).rv

\* After a later Create the trash is empty.
C10_WitnessLive ==
    /\ history.req.source = ListRequest_TRASH
    /\ DeletesOf(history.req.key) # {}
    /\ LiveIn(history.req.key)
    /\ history.items = <<>>

----------------------------------------------------------------------------
(* Claims C5-C7, under Spec *)

\* C5: under any interleaving of WriteEvent calls, between any two
\* Created records of one key (in RV order) there is a Deleted record, so
\* two concurrent ADDED writes to one key never both succeed.
C5_CreatedOnlyWhenNotLive ==
    \A c1, c2 \in metaStore :
        (/\ c1.key = c2.key /\ c1.rv < c2.rv
         /\ c1.action = DataActionCreated /\ c2.action = DataActionCreated)
        => \E d \in metaStore :
               /\ d.key = c1.key /\ d.action = DataActionDeleted
               /\ c1.rv < d.rv /\ d.rv < c2.rv

\* The request pins the list version: by a token or by its resource version.
Pinned(req) == req.token # NoToken \/ req.rv > 0

\* C6: list snapshot isolation.  Two ListIterator calls with the same
\* pinned list version, key filter, offset and limit return the same
\* entries, whatever writes start, are in flight or complete in between.
C6_ListSnapshotIsolation ==
    (/\ lister.pc = "idle" /\ lister.resp.err = ErrNone
     /\ lister.base.err = ErrNone /\ Pinned(lister.req))
    => lister.resp.items = lister.base.items

\* C7: every page, the first page of a fresh list included, is scanned as
\* of the list version the call returns: no entry is newer than it.
C7_PagesAtListRV ==
    (lister.pc = "idle" /\ lister.resp.err = ErrNone) =>
        \A i \in 1..Len(lister.resp.items) :
            lister.resp.items[i].rv <= lister.resp.listRV

----------------------------------------------------------------------------
(* Claim C8, under SpecList *)

\* The key's MetaRecord of highest RV at or before rv is not a deletion.
LiveAt(k, rv) ==
    \E m \in metaStore :
        /\ m.key = k /\ m.rv <= rv /\ m.action # DataActionDeleted
        /\ \A o \in metaStore : (o.key = k /\ o.rv <= rv) => o.rv <= m.rv

\* The objects a list of the prefix at the version has to return.
LiveMatches(prefix, rv) ==
    {k \in AllKeys : k.group = prefix.group /\ (prefix.name = 0 \/ k.name = prefix.name)
                     /\ LiveAt(k, rv)}

\* seq lists the first Len(seq) keys of S in store order.
IsStorePrefix(seq, S) ==
    /\ \A i \in 1..Len(seq) : seq[i] \in S
    /\ \A i, j \in 1..Len(seq) : i < j => KeyBefore(seq[i], seq[j])
    /\ \A k \in S : (\A i \in 1..Len(seq) : seq[i] # k) =>
           \A i \in 1..Len(seq) : KeyBefore(seq[i], k)

\* C8: list pagination is complete and duplicate-free.  Following the
\* tokens from a first page, the pages list the live matching objects in
\* store order, each once, `limit` per page; the token is empty exactly
\* when every object was listed.
C8_PaginationComplete ==
    (lister.pc = "idle" /\ lister.resp.err = ErrNone /\ lister.start = 0) =>
        LET all == LiveMatches(lister.req.key, lister.resp.listRV)
            keys == [i \in 1..Len(lister.seen) |-> lister.seen[i].key]
            left == Cardinality(all) - (Len(lister.seen) - Len(lister.resp.items))
        IN  /\ IsStorePrefix(keys, all)
            /\ Len(lister.resp.items) =
                   IF left < lister.req.limit THEN left ELSE lister.req.limit
            /\ lister.resp.token = NoToken <=> Len(keys) = Cardinality(all)
            /\ \A i \in 1..Len(lister.seen) :
                   /\ lister.seen[i].err = ErrNone
                   /\ \E x \in WrittenOf(lister.seen[i].key) :
                          /\ x.rv = lister.seen[i].rv
                          /\ x.value = lister.seen[i].value
                          /\ x = Newest(WrittenUpTo(x.key, lister.resp.listRV))

\* limit = 1 over 3 objects: the third page holds the third object and no
\* token.
C8_Witness ==
    /\ lister.pc = "idle" /\ lister.start = 0
    /\ lister.req.limit = 1 /\ lister.req.token # NoToken
    /\ Len(lister.seen) = 3 /\ Len(lister.resp.items) = 1
    /\ lister.resp.token = NoToken
    /\ Cardinality(LiveMatches(lister.req.key, lister.resp.listRV)) = 3

----------------------------------------------------------------------------
(* Claims C11-C12, under SpecStats *)

RecordsOfGroup(g) == {d \in dataStore : d.key.group = g}

\* The names of a group and resource kind whose DataRecord of highest
\* resource version is not a deletion.
LiveNames(g) ==
    {n \in {d.key.name : d \in RecordsOfGroup(g)} :
        \E d \in RecordsOfGroup(g) :
            /\ d.key.name = n /\ d.action # DataActionDeleted
            /\ \A o \in RecordsOfGroup(g) : o.key.name = n => o.rv <= d.rv}

\* C11: GetResourceStats emits at most one row per group and resource
\* kind; the row's count is the number of names whose most recent record
\* is not Deleted, and the row is emitted exactly when that number
\* exceeds minCount.
C11_StatsCount ==
    (stats.asked /\ stats.err = ErrNone) =>
        /\ \A r1, r2 \in stats.rows : r1.group = r2.group => r1 = r2
        /\ \A r \in stats.rows :
               /\ RecordsOfGroup(r.group) # {}
               /\ r.count = Cardinality(LiveNames(r.group))
        /\ \A g \in {d.key.group : d \in dataStore} :
               (\E r \in stats.rows : r.group = g)
                   <=> Cardinality(LiveNames(g)) > stats.minCount

\* Three live and two deleted objects of one kind, minCount 0: count 3.
C11_Witness ==
    /\ stats.asked /\ stats.err = ErrNone /\ stats.minCount = 0
    /\ Cardinality({d.key.name : d \in RecordsOfGroup(1)}) = 5
    /\ Cardinality(LiveNames(1)) = 3
    /\ \E r \in stats.rows : r.group = 1 /\ r.count = 3

\* C12: the resource version of a stats row is the greatest resource
\* version among all DataRecords of its group and resource kind.
C12_StatsMaxRV ==
    (stats.asked /\ stats.err = ErrNone) =>
        \A r \in stats.rows :
            r.rv = Max({d.rv : d \in RecordsOfGroup(r.group)})

----------------------------------------------------------------------------
(* Claims C13-C16, under SpecFault *)

InFlight(w) == writers[w].pc # "idle"

\* The resource versions some caller or record holds.
HeldRVs ==
    {d.rv : d \in dataStore} \cup {m.rv : m \in metaStore}
    \cup {e.rv : e \in eventStore} \cup {x.rv : x \in written}
    \cup {writers[w].rv : w \in Writers} \cup {history.listRV, lister.listRV}

OnePerRV(store) == \A a, b \in store : a.rv = b.rv => a = b

\* A step in which a call mints: the value is the generator's new value,
\* which is greater than every value minted before.
MintsFresh ==
    /\ snowflake' >= snowflake
    /\ \A w \in Writers :
           (~InFlight(w) /\ writers'[w].pc # "idle") =>
               writers'[w].rv = snowflake' /\ snowflake' > snowflake
    /\ (lister.pc = "idle" /\ lister'.pc = "scan" /\ lister'.resourceVersion = 0) =>
           lister'.listRV = snowflake' /\ snowflake' > snowflake
    /\ (history' # history /\ history'.listRV # 0) =>
           history'.listRV = snowflake' /\ snowflake' > snowflake

HasRecord(store, x) ==
    \E r \in store : r.key = x.key /\ r.rv = x.rv /\ r.action = x.action

\* C14: write order.  In every state, also between the steps of a write
\* and after a failed one, an EventRecord has its MetaRecord and a
\* MetaRecord has its DataRecord, so the DataRecord of every MetaRecord
\* and EventRecord can be fetched.
C14_WriteOrder ==
    /\ \A e \in eventStore : HasRecord(metaStore, e)
    /\ \A m \in metaStore : HasRecord(dataStore, m)
    /\ \A x \in metaStore \cup eventStore :
           DataGet(x.key, x.rv, x.action).err = ErrNone

\* A write that failed at its metadata step next to a complete write and
\* a write between its metadata and its event step.
C14_Witness ==
    /\ \E d \in dataStore :
           /\ ~HasRecord(metaStore, d)
           /\ \A w \in Writers : writers[w].rv # d.rv
    /\ \E m \in metaStore : ~HasRecord(eventStore, m)
    /\ eventStore # {}

\* The record a writer is about to save, as found in a store.
Own(store, w) == {r \in store : r.rv = writers[w].rv}

\* A step in which a store call of the writer fails.
StoreStepFails(w) ==
    /\ writers[w].pc \in {"data", "meta", "event"}
    /\ writers'[w].pc = "idle"
    /\ writers'[w].ret.err \in {"failed to write data", "failed to write metadata",
                                "failed to save event"}

\* C15: no rollback.  When the data, metadata or event step of WriteEvent
\* fails, the call returns the error and RV 0, the records of the earlier
\* steps stay, and no later step runs: the stores hold the records of the
\* steps before the failed one and none of the failed or a later step.
C15_NoRollback ==
    /\ [][\A w \in Writers : StoreStepFails(w) =>
            /\ writers'[w].ret.rv = 0
            /\ UNCHANGED stores
            /\ Cardinality(Own(dataStore', w)) = IF writers[w].pc = "data" THEN 0 ELSE 1
            /\ Cardinality(Own(metaStore', w)) = IF writers[w].pc = "event" THEN 1 ELSE 0
            /\ Own(eventStore', w) = {}]_vars
    /\ [](\A e \in eventStore : \E x \in written : x.rv = e.rv /\ x.key = e.key)

\* A write failed at its event step and left its data and metadata.
C15_Witness ==
    \E w \in Writers :
        /\ writers[w].ret.err = "failed to save event"
        /\ \E m \in metaStore :
               /\ HasRecord(dataStore, m) /\ ~HasRecord(eventStore, m)
               /\ \A v \in Writers : writers[v].rv # m.rv

\* A step in which the writer is turned down before its first store call.
Rejected(w) ==
    /\ writers'[w] # writers[w]
    /\ writers'[w].pc = "idle"
    /\ writers'[w].ret.err \in {"invalid event", "invalid event type",
                                "failed to build document"}

\* C16: a WriteEvent that fails validation, carries an unknown event type
\* or whose document build fails returns an error and RV 0 and leaves the
\* three stores as they were, with no record at its version.
C16_RejectedWritesNothing ==
    [][\A w \in Writers : Rejected(w) =>
            /\ writers'[w].ret.rv = 0
            /\ UNCHANGED stores
            /\ InFlight(w) =>
                   Own(dataStore', w) \cup Own(metaStore', w) \cup Own(eventStore', w) = {}]_vars

\* One call turned down for its event type, another for its document,
\* next to stored records.
C16_Witness ==
    /\ \E w \in Writers : writers[w].ret.err = "invalid event type"
    /\ \E w \in Writers : writers[w].ret.err = "failed to build document"
    /\ dataStore # {}

----------------------------------------------------------------------------
(* Claim C17, under SpecDangling *)

\* The DataRecords left without a MetaRecord by a write that is over.
Dangling ==
    {d \in dataStore :
        /\ ~HasRecord(metaStore, d)
        /\ \A w \in Writers : writers[w].rv # d.rv}

Backed(item) == \E m \in metaStore : m.key = item.key /\ m.rv = item.rv

\* The names of a group and resource kind that are live when the
\* dangling DataRecords are left out.
BackedLiveNames(g) ==
    LET recs == RecordsOfGroup(g) \ Dangling
    IN  {n \in {d.key.name : d \in recs} :
            \E d \in recs :
                /\ d.key.name = n /\ d.action # DataActionDeleted
                /\ \A o \in recs : o.key.name = n => o.rv <= d.rv}

\* C17: a DataRecord without a MetaRecord is never returned by
\* ReadResource, ListIterator or ListHistory and never counted by
\* GetResourceStats.
C17_DanglingInvisible ==
    /\ readResp.resp.code = StatusOK =>
           Backed([key |-> readResp.key, rv |-> readResp.resp.rv])
    /\ \A i \in 1..Len(lister.resp.items) : Backed(lister.resp.items[i])
    /\ \A i \in 1..Len(history.items) : Backed(history.items[i])
    /\ (stats.asked /\ stats.err = ErrNone) =>
           /\ \A r \in stats.rows : r.count = Cardinality(BackedLiveNames(r.group))
           /\ \A g \in {d.key.group : d \in dataStore} :
                  (\E r \in stats.rows : r.group = g)
                      <=> Cardinality(BackedLiveNames(g)) > stats.minCount

----------------------------------------------------------------------------
(* Claim C18, under SpecPage *)

IsPrefix(a, b) == Len(a) <= Len(b) /\ \A i \in 1..Len(a) : a[i] = b[i]

\* C18: a paged ListHistory scan reads a fixed snapshot.  The pages hand
\* out, in order, the entries the listing held when the scan started:
\* writes between two pages add no entry to the later pages, and when the
\* last page is reached no entry of the scan is missing.
C18_HistoryPagesSnapshot ==
    pager.pages > 0 =>
        /\ IsPrefix(pager.got, pager.start)
        /\ pager.token = NoToken => pager.got = pager.start

----------------------------------------------------------------------------
(* Claims C19-C20, under SpecWatch *)

\* The WrittenEvents the goroutine has built and the consumer has not
\* taken yet.
Delivered == Range(watch.events) \cup Range(watch.pending)

CorrespondsTo(x, e) ==
    /\ e.key = x.key /\ e.rv = x.rv
    /\ e.folder = x.folder /\ e.previousRV = x.previousRV
    /\ \/ e.action = DataActionCreated /\ x.type = WatchEvent_ADDED
       \/ e.action = DataActionUpdated /\ x.type = WatchEvent_MODIFIED
       \/ e.action = DataActionDeleted /\ x.type = WatchEvent_DELETED
    /\ \E d \in dataStore : d.key = e.key /\ d.rv = e.rv /\ d.value = x.value

\* C19: every WrittenEvent delivered by WatchWriteEvents corresponds to
\* one EventRecord, with its key, resource version, folder and previous
\* version, the event type of its action, and the payload of the
\* DataRecord written at that version.
C19_WrittenEventOfRecord ==
    \A x \in Delivered :
        /\ \E e \in eventStore : CorrespondsTo(x, e)
        /\ Cardinality({e \in eventStore : e.rv = x.rv}) = 1

\* An update is on the output channel while a delete waits to be sent.
C19_Witness ==
    /\ \E x \in Range(watch.events) : x.type = WatchEvent_MODIFIED /\ x.previousRV = 1
    /\ \E x \in Range(watch.pending) : x.type = WatchEvent_DELETED

\* C20: after the context is cancelled the forwarding goroutine
\* eventually stops and the channel it returned is eventually closed,
\* whatever the consumer does.
C20_WatchTerminates ==
    (watch.ctx = "cancelled") ~> (watch.pc = "done" /\ watch.closed)

\* C21: writers never block on watchers.  A WriteEvent in flight can
\* always take its next step, whatever the state of the subscription and
\* of its channels, and no step of WriteEvent touches a watch channel.
C21_WritersNeverBlock ==
    /\ [](\A w \in Writers : InFlight(w) => ENABLED WriteEventStep(w, NoFaults))
    /\ [][(\E w \in Writers : writers'[w] # writers[w]) => UNCHANGED watch]_vars

\* A write is about to save its EventRecord while the goroutine is
\* blocked in its send: both channels are full and nobody reads.
C21_Witness ==
    /\ writers[1].pc = "event"
    /\ watch.pc = "send"
    /\ Len(watch.events) = EventsBuffer
    /\ Len(watch.notifierEvents) = NotifierBuffer

----------------------------------------------------------------------------
(* Claim C22, under SpecDangling *)

\* Between two Created records of the key in a store there is a Deleted
\* record.
NoSecondCreate(store, k) ==
    \A a, b \in store :
        (/\ a.key = k /\ b.key = k /\ a.rv < b.rv
         /\ a.action = DataActionCreated /\ b.action = DataActionCreated) =>
            \E d \in store :
                /\ d.key = k /\ d.action = DataActionDeleted
                /\ a.rv < d.rv /\ d.rv < b.rv

\* C22: retrying Created after a partial failure is safe.  With one
\* caller at a time, where a second Created can only come from an Added
\* that is issued again after it failed, the history of a key in the
\* data store and in the metadata store holds no second Created record
\* without a Deleted record before it.
C22_RetryCreatedSafe ==
    \A k \in DanglingKeys :
        NoSecondCreate(dataStore, k) /\ NoSecondCreate(metaStore, k)

----------------------------------------------------------------------------
(* Claim C23, under SpecList *)

----------------------------------------------------------------------------
(* Claim C24, under SpecAll *)

\* The records a step adds to a store belong to a write in flight and
\* carry its version, which no record of that store carried before.
AddsOwn(store, next) ==
    \A r \in next \ store :
        /\ \E w \in Writers : InFlight(w) /\ r.rv = writers[w].rv /\ r.key = writers[w].event.key
        /\ \A o \in store : o.rv # r.rv

\* C24: records are append-only.  No step modifies or removes a record of
\* the three stores; WriteEvent only adds records under the version it
\* minted, and the steps of ReadResource, ListIterator, ListHistory,
\* GetResourceStats and WatchWriteEvents leave the stores unchanged.
C24_AppendOnly ==
    [][/\ dataStore \subseteq dataStore'
       /\ metaStore \subseteq metaStore'
       /\ eventStore \subseteq eventStore'
       /\ AddsOwn(dataStore, dataStore')
       /\ AddsOwn(metaStore, metaStore')
       /\ AddsOwn(eventStore, eventStore')
       /\ (writers' = writers) => UNCHANGED stores]_vars

\* A deleted object keeps its Created records, while every reader and
\* the watcher have been served.
C24_Witness ==
    /\ \E c, d \in metaStore :
           /\ c.key = d.key /\ c.rv < d.rv
           /\ c.action = DataActionCreated /\ d.action = DataActionDeleted
           /\ HasRecord(dataStore, c) /\ HasRecord(eventStore, c)
    /\ readResp # NoRead /\ stats.asked /\ lister.resp.listRV > 0
    /\ watch.pc # "none"

----------------------------------------------------------------------------
(* Claim C25, under Spec *)

\* Every record a step adds to a store is newer than the records the
\* store already holds for its key.
PersistsInRVOrder(store, next) ==
    \A r \in next \ store : \A o \in store : o.key = r.key => o.rv < r.rv

\* C25: for one key the order of the records by RV is the order in which
\* the writes were persisted, so the record persisted last is the latest
\* one, which ReadResource(key, 0) answers with.
C25_RVOrderIsWriteOrder ==
    [][/\ PersistsInRVOrder(dataStore, dataStore')
       /\ PersistsInRVOrder(metaStore, metaStore')]_vars

----------------------------------------------------------------------------
(* Claims C26-C30, under SpecMatch *)

\* A single ListHistory call was answered without error.
Answered == history.req.key # NoKey /\ history.err = ErrNone

\* The resource versions of the object's DataRecords.
RecordRVs(k) == {d.rv : d \in DataKeys(k)}

\* C26: in live mode with a match other than Exact, with or without an
\* explicit resource version, ListHistory returns no entry at or below
\* the highest RV among the Deleted entries that passed the version
\* filter.
C26_LiveWindowAlways ==
    (/\ Answered /\ history.req.source = ListRequest_STORE
     /\ history.req.match # MatchExact) =>
        LET passed == VersionFilter(DataKeys(history.req.key),
                                    history.req.match, history.req.rv)
            deletes == {k \in passed : k.action = DataActionDeleted}
        IN  \A i \in 1..Len(history.items) : \A d \in deletes :
                history.items[i].rv > d.rv

\* C27: the version-match filter of ListHistory.  With Exact and RV r only
\* the entry of RV r is kept (in live mode: exactly that entry); with
\* NotOlderThan and r > 0 only entries of RV >= r; with NotNewerThan or
\* no match and r > 0 only entries of RV <= r.
C27_VersionMatch ==
    Answered =>
        LET r == history.req.rv
            m == history.req.match
            rvs == Range(ItemRVs(history.items))
        IN  /\ m = MatchExact =>
                /\ rvs \subseteq {r}
                /\ history.req.source = ListRequest_STORE =>
                       rvs = RecordRVs(history.req.key) \cap {r}
            /\ (m = MatchNotOlderThan /\ r > 0) => \A v \in rvs : v >= r
            /\ (m \in {MatchUnset, MatchNotNewerThan} /\ r > 0) =>
                   \A v \in rvs : v <= r

\* NotOlderThan 2 on an object with an older record: the older record is
\* dropped, a newer one is listed.
C27_Witness ==
    /\ Answered /\ history.req.source = ListRequest_STORE
    /\ history.req.match = MatchNotOlderThan /\ history.req.rv = 2
    /\ \E v \in RecordRVs(history.req.key) : v < 2
    /\ Len(history.items) >= 2

\* Exact 2 on an object with three records lists the record of RV 2.
C27_WitnessExact ==
    /\ Answered /\ history.req.source = ListRequest_STORE
    /\ history.req.match = MatchExact /\ history.req.rv = 2
    /\ Cardinality(RecordRVs(history.req.key)) >= 3
    /\ ItemRVs(history.items) = <<2>>

\* C28: ListHistory with Exact matching and a resource version <= 0 fails
\* with an error and hands nothing to the visit callback, in live mode
\* and in Trash mode.
C28_ExactNeedsVersion ==
    (/\ history.req.key # NoKey /\ history.req.match = MatchExact
     /\ history.req.rv <= 0) =>
        /\ history.err # ErrNone
        /\ history.items = <<>> /\ history.token = NoToken
        /\ history.listRV = 0

\* The trash of a deleted object asked with Exact and no version.
C28_Witness ==
    /\ history.req.source = ListRequest_TRASH
    /\ history.req.match = MatchExact /\ history.req.rv = 0
    /\ history.err # ErrNone
    /\ ~LiveIn(history.req.key) /\ DeletesOf(history.req.key) # {}

\* The history of a live object asked with Exact and a negative version.
C28_WitnessLive ==
    /\ history.req.source = ListRequest_STORE
    /\ history.req.match = MatchExact /\ history.req.rv < 0
    /\ history.err # ErrNone
    /\ LiveIn(history.req.key)

\* A sequence of resource versions that strictly ascends or descends.
StrictlyOrdered(rvs, asc) ==
    \A i \in 1..Len(rvs) - 1 :
        IF asc THEN rvs[i] < rvs[i + 1] ELSE rvs[i] > rvs[i + 1]

\* C29: history ordering.  Without a token the entries come in strictly
\* ascending RV order for NotOlderThan and in strictly descending order
\* otherwise; with a token the direction of the token is used whatever
\* match the call names, so the pages of a client stay strictly
\* monotonic in the direction of its first call.
C29_HistoryOrder ==
    /\ Answered =>
           StrictlyOrdered(ItemRVs(history.items),
                           history.req.match = MatchNotOlderThan)
    /\ pager.pages > 0 =>
           LET asc == pager.req.match = MatchNotOlderThan
           IN  /\ StrictlyOrdered(pager.got, asc)
               /\ pager.token # NoToken =>
                      GetContinueToken(pager.token).token.SortAscending = asc

\* Three pages in ascending order, the last one asked with no match.
C29_Witness ==
    /\ pager.pages >= 3 /\ Len(pager.got) >= 3
    /\ pager.req.match = MatchNotOlderThan /\ pager.match = MatchUnset
    /\ pager.got[1] < pager.got[2]

\* Three pages in descending order, the last one asked with NotOlderThan.
C29_WitnessDescending ==
    /\ pager.pages >= 3 /\ Len(pager.got) >= 3
    /\ pager.req.match = MatchUnset /\ pager.match = MatchNotOlderThan
    /\ pager.got[1] > pager.got[2]

\* The next page of the paging client, were it asked now with the same
\* request and the token at hand.
NextPage ==
    ListHistory([pager.req EXCEPT !.token = pager.token], 0, FALSE, FALSE)

Least(a, b) == IF a < b THEN a ELSE b

\* C30: history pagination is an exclusive cursor.  With no write during
\* the scan, the call resumed with the token taken at the entry of RV v
\* yields exactly the entries beyond v, in the pinned direction, of the
\* unpaginated result: the pages put together are a prefix of it with no
\* entry twice, and all of it once the last page is reached.
C30_ExclusiveCursor ==
    pager.pages > 0 =>
        LET n == Len(pager.got)
            asc == pager.req.match = MatchNotOlderThan
        IN  /\ Cardinality(Range(pager.got)) = n
            /\ IsPrefix(pager.got, pager.start)
            /\ pager.token = NoToken => pager.got = pager.start
            /\ pager.token # NoToken =>
                   LET v == GetContinueToken(pager.token).token.ResourceVersion
                       next == ItemRVs(NextPage.items)
                   IN  /\ n > 0 /\ v = pager.got[n]
                       /\ next # <<>>
                       /\ next = SubSeq(pager.start, n + 1,
                                        Least(Len(pager.start), n + pager.req.limit))
                       /\ \A i \in 1..Len(next) :
                              IF asc THEN next[i] > v ELSE next[i] < v

\* Four entries handed out one per page, the last page reached.
C30_Witness ==
    /\ pager.pages >= 4 /\ pager.req.limit = 1
    /\ pager.token = NoToken
    /\ Len(pager.start) = 4 /\ pager.got = pager.start

----------------------------------------------------------------------------
(* Claim C31, under SpecKey *)

\* ListHistory was called, and its request carries no options or key, or
\* a key with an empty field.
Malformed(resp) ==
    /\ resp.req.source # ""
    /\ \/ resp.req.key = NilKey
       \/ resp.req.key.namespace = 0 \/ resp.req.key.group = 0
       \/ resp.req.key.resource = 0 \/ resp.req.key.name = 0

KeyErrors ==
    {"missing options or key in ListRequest", "group is required",
     "resource is required", "namespace is required", "name is required"}

\* C31: ListHistory asked without options or key, or with an empty group,
\* resource, namespace or name, fails with the error of that check: no
\* store is scanned (a failing store does not change the answer), no list
\* version is minted and nothing is handed to the visit callback.
C31_MissingKey ==
    /\ [](Malformed(history) =>
            /\ history.err \in KeyErrors
            /\ history.items = <<>> /\ history.token = NoToken
            /\ history.listRV = 0)
    /\ [][(history' # history /\ Malformed(history')) =>
             UNCHANGED <<snowflake, stores>>]_vars

\* An object with records asked with an empty namespace, and with no key.
C31_Witness ==
    /\ Malformed(history) /\ history.req.key # NilKey /\ dataStore # {}
    /\ history.req.key.namespace = 0
    /\ history.req.key.group = 1 /\ history.req.key.resource = 1
    /\ history.req.key.name = 1
    /\ history.err = "namespace is required"

C31_WitnessNil ==
    /\ Malformed(history) /\ history.req.key = NilKey /\ dataStore # {}
    /\ history.err = "missing options or key in ListRequest"

----------------------------------------------------------------------------
(* Claims C32-C33, under SpecList *)

\* The keys are the entries at the 0-based positions o .. o+L of the
\* scan, as far as the scan goes.
AtPositions(keys, all, o, L) ==
    /\ Len(keys) = (IF Len(all) <= o THEN 0
                    ELSE IF Len(all) - o > L + 1 THEN L + 1 ELSE Len(all) - o)
    /\ \A i \in 1..Len(keys) : keys[i] = all[o + i]

\* C32: for offset o and limit L the iterator of ListIterator holds
\* exactly the entries at positions o .. o+L of the scan (0-based, store
\* order): the first o matches are skipped, at most L+1 entries are
\* collected, and the extra entry is there iff the scan has more than o+L
\* matches.  The callback is served from them, the scan being the one at
\* the list version of the call: L entries at most, and a token iff the
\* extra entry is there.
C32_OffsetAndLimit ==
    /\ [](\A prefix \in ListPrefixes, rv \in 0..MaxListRV, o \in 0..3, L \in 0..2 :
            LET all == ListResourceKeysAtRevision(prefix, rv)
                keys == ScanKeys(prefix, rv, o, L)
            IN  /\ AtPositions(keys, all, o, L)
                /\ Len(keys) = L + 1 <=> Len(all) > o + L)
    /\ [][(lister.pc = "scan" /\ lister'.pc = "idle" /\ lister'.resp.err = ErrNone) =>
             LET all == ListResourceKeysAtRevision(lister.req.key, lister.listRV)
                 o == lister.offset
                 L == lister.req.limit
                 items == lister'.resp.items
             IN  /\ Len(items) <= L
                 /\ \A i \in 1..Len(items) :
                        /\ o + i <= Len(all)
                        /\ items[i].key = all[o + i].key
                        /\ items[i].rv = all[o + i].rv
                 /\ Len(items) < L => Len(items) = (IF Len(all) <= o THEN 0 ELSE Len(all) - o)
                 /\ lister'.resp.token # NoToken <=> Len(all) > o + L]_vars

\* The second page of three objects, limit 1: one entry and a token.
C32_Witness ==
    /\ lister.pc = "idle" /\ lister.resp.err = ErrNone
    /\ lister.offset = 1 /\ lister.req.limit = 1
    /\ Len(ListResourceKeysAtRevision(lister.req.key, lister.listRV)) = 3
    /\ Len(lister.resp.items) = 1
    /\ lister.resp.items[1].key =
           ListResourceKeysAtRevision(lister.req.key, lister.listRV)[2].key
    /\ lister.resp.token # NoToken

\* The list version ListIterator settles on when a call starts: the
\* token's, else the caller's when positive, else a fresh one that is
\* greater than the version of every acknowledged write.
ListRVChosen ==
    (lister.pc = "idle" /\ lister'.pc = "scan") =>
        LET req == lister'.req
            token == GetContinueToken(req.token).token
        IN  IF req.token # NoToken
            THEN lister'.listRV = token.ResourceVersion
            ELSE IF req.rv > 0
            THEN lister'.listRV = req.rv
            ELSE /\ lister'.listRV = snowflake'
                 /\ snowflake' > snowflake
                 /\ \A x \in written : lister'.listRV > x.rv

\* What ListIterator returns when a call ends: the list version it
\* settled on, or 0 with the error.
ListRVReturned ==
    (lister.pc = "scan" /\ lister'.pc = "idle") =>
        IF lister'.resp.err = ErrNone
        THEN lister'.resp.listRV = lister.listRV /\ lister.listRV > 0
        ELSE lister'.resp.listRV = 0 /\ lister'.resp.items = <<>>

\* The entries a call hands out are the ones the scan at the list version
\* it returns holds at its positions.
ServesListRV ==
    (lister.pc = "scan" /\ lister'.pc = "idle" /\ lister'.resp.err = ErrNone) =>
        LET all == ListResourceKeysAtRevision(lister.req.key, lister'.resp.listRV)
            items == lister'.resp.items
        IN  \A i \in 1..Len(items) :
                /\ lister.offset + i <= Len(all)
                /\ items[i].key = all[lister.offset + i].key
                /\ items[i].rv = all[lister.offset + i].rv

\* The value ListIterator returns, leaving aside what it served.
ListRVCases == [][ListRVChosen /\ ListRVReturned]_vars

\* C33: ListIterator returns the list version that identifies the snapshot
\* it served: the token's resource version when a token is given, else
\* the caller's resource version when it is positive, else a freshly
\* minted one greater than the version of every write completed before
\* the call; a callback error makes it return 0 and that error.
C33_ListRVIdentifiesSnapshot ==
    [][ListRVChosen /\ ListRVReturned /\ ServesListRV]_vars

----------------------------------------------------------------------------
(* Claim C34, under SpecFault *)

\* The writer's call returns in this step.
Returns(w) == writers'[w] # writers[w] /\ writers'[w].pc = "idle"

\* The EventRecord of the call the writer is in.
EventRecordOf(w) ==
    [key |-> writers[w].event.key, rv |-> writers[w].rv,
     action |-> ActionOf(writers[w].event.type),
     folder |-> writers[w].event.folder,
     previousRV |-> writers[w].event.previousRV]

\* C34: each successful WriteEvent appends exactly one EventRecord, with
\* the key of the write, the version it minted, the action, the folder
\* and the caller's PreviousRV; a WriteEvent that returns an error appends
\* none, so the EventRecords are never more than the MetaRecords.
C34_OneEventPerWrite ==
    /\ [](/\ \A x \in written :
                Cardinality({e \in eventStore : e.rv = x.rv}) = 1
          /\ \A e \in eventStore :
                \E m \in metaStore :
                    /\ m.key = e.key /\ m.rv = e.rv
                    /\ m.action = e.action /\ m.folder = e.folder
          /\ Cardinality(eventStore) <= Cardinality(metaStore))
    /\ [][/\ \A w \in Writers : Returns(w) =>
                IF writers'[w].ret.err = ErrNone
                THEN /\ writers'[w].ret.rv = writers[w].rv
                     /\ EventRecordOf(w) \notin eventStore
                     /\ eventStore' = eventStore \cup {EventRecordOf(w)}
                ELSE /\ eventStore' = eventStore
                     /\ \A e \in eventStore : InFlight(w) => e.rv # writers[w].rv
          /\ eventStore' # eventStore =>
                \E w \in Writers : Returns(w) /\ writers'[w].ret.err = ErrNone]_vars

\* An acknowledged update whose EventRecord carries the folder and the
\* PreviousRV of the call, next to a MetaRecord whose write failed at the
\* event step.
C34_Witness ==
    /\ \E x \in written, e \in eventStore :
           /\ x.type = WatchEvent_MODIFIED /\ e.rv = x.rv /\ e.key = x.key
           /\ e.action = DataActionUpdated /\ e.folder = 2 /\ e.previousRV = 1
    /\ \E w \in Writers : writers[w].ret.err = "failed to save event"
    /\ Cardinality(eventStore) < Cardinality(metaStore)

----------------------------------------------------------------------------
(* Claim C35, under SpecRead *)

\* What the metadata lookup of a read answers when it does not fail.
Lookup(k, rv) == GetResourceKeyAtRevision(k, rv)

\* C35: ReadResource separates its outcomes.  A request without key is
\* answered 400; a key whose metadata lookup reports NotFound is answered
\* 404; a failure of the metadata lookup or of the data store is answered
\* 500; only a read that succeeded carries a value, with the resolved
\* version and the folder of the resolved MetaRecord.
C35_ReadOutcomes ==
    /\ \A k \in ReadKeys \cup {NoKey}, rv \in 0..MaxReadRV, mf \in Faults, df \in Faults :
           LET resp == ReadResource(k, rv, mf, df)
               found == Lookup(k, rv)
           IN  resp.code =
                   (IF k = NoKey THEN StatusBadRequest
                    ELSE IF mf THEN StatusInternalServerError
                    ELSE IF found.err = ErrNotFound THEN StatusNotFound
                    ELSE IF df THEN StatusInternalServerError
                    ELSE StatusOK)
    /\ readResp # NoRead =>
           LET resp == readResp.resp
               found == Lookup(readResp.key, readResp.atRV)
           IN  /\ readResp.key = NoKey <=> resp.code = StatusBadRequest
               /\ resp.code = StatusNotFound => found.err = ErrNotFound
               /\ resp.code = StatusOK =>
                      /\ found.err = ErrNone
                      /\ resp.rv = found.meta.rv /\ resp.rv > 0
                      /\ resp.folder = found.meta.folder
                      /\ resp.value # NoValue
                      /\ \E d \in dataStore :
                             /\ d.key = readResp.key /\ d.rv = resp.rv
                             /\ d.value = resp.value
               /\ resp.code # StatusOK =>
                      resp.rv = 0 /\ resp.value = NoValue /\ resp.folder = 0

\* A read of a live object that fails, and a read of a deleted object.
C35_Witness ==
    /\ readResp # NoRead /\ readResp.key # NoKey
    /\ readResp.resp.code = StatusInternalServerError
    /\ Lookup(readResp.key, readResp.atRV).err = ErrNone

C35_WitnessNotFound ==
    /\ readResp # NoRead /\ readResp.key # NoKey
    /\ readResp.resp.code = StatusNotFound
    /\ \E m \in metaStore : m.key = readResp.key /\ m.action = DataActionDeleted

\* A read that succeeds: the folder is the MetaRecord's, not the payload's.
C35_WitnessOK ==
    /\ readResp # NoRead
    /\ readResp.resp.code = StatusOK
    /\ readResp.resp.folder # readResp.resp.value.folder

----------------------------------------------------------------------------
(* Claim C36, under SpecIter *)

\* C36: when fetching or reading the payload of an entry fails during the
\* iteration of a list, Next returns false and Error returns that
\* failure, so the call ends with the failure and the caller can tell a
\* failed list from an exhausted one.
C36_ListFailureVisible ==
    lister.resp.iterErr \notin {"", ErrNone} =>
        /\ ListIteratorError(lister.resp.iterErr) = lister.resp.iterErr
        /\ lister.resp.err = lister.resp.iterErr

----------------------------------------------------------------------------
(* Claim C37, under SpecKey *)

\* C37: in Trash mode, when the liveness lookup against the metadata
\* store fails with an error other than NotFound, ListHistory returns
\* that error; it does not report an empty trash as if the object were
\* live.
C37_TrashLookupFailure ==
    history.lookupErr \notin {"", ErrNone, ErrNotFound} =>
        history.err = history.lookupErr

----------------------------------------------------------------------------
(* Claim C38, under SpecWatch *)

\* The forwarding goroutine has stopped: it left its loop at close(events)
\* or returned from inside it.
Stopped == watch.pc \in {"done", "returned"}

\* C38: whenever the forwarding goroutine of WatchWriteEvents stops, also
\* when fetching or reading the DataRecord of an event fails, the channel
\* it returned is closed, so the consumer sees the end of the stream.
C38_ClosedWhenStopped == Stopped => watch.closed

----------------------------------------------------------------------------
(* Claim C39, under SpecSeq *)

\* The record of the call the writer is in, as a store holds it.
Stored(store, w) ==
    \E r \in store :
        /\ r.key = writers[w].event.key /\ r.rv = writers[w].rv
        /\ r.action = ActionOf(writers[w].event.type)

\* C39: only ADDED is guarded by an existence check.  WriteEvent with
\* MODIFIED or DELETED goes through whether the key is live, was deleted
\* or was never created, and appends an Updated or a Deleted record under
\* its version, so the records of a key need not start with a Created
\* one.
C39_OnlyAddedGuarded ==
    [][\A w \in Writers :
        (/\ writers[w].event.type \in {WatchEvent_MODIFIED, WatchEvent_DELETED}
         /\ writers'[w] # writers[w]) =>
            /\ writers[w].pc = "switch" =>
                   /\ writers'[w].pc = "data"
                   /\ writers'[w].action =
                          (IF writers[w].event.type = WatchEvent_MODIFIED
                           THEN DataActionUpdated ELSE DataActionDeleted)
                   /\ UNCHANGED stores
            /\ writers[w].pc = "event" =>
                   /\ writers'[w].pc = "idle"
                   /\ writers'[w].ret = [rv |-> writers[w].rv, err |-> ErrNone]
                   /\ Stored(dataStore', w) /\ Stored(metaStore', w)
                   /\ Stored(eventStore', w)
      ]_vars

\* A key whose first record is a Deleted one, updated afterwards.
C39_Witness ==
    \E d, u \in metaStore :
        /\ d.key = u.key /\ d.rv < u.rv
        /\ d.action = DataActionDeleted /\ u.action = DataActionUpdated
        /\ \A m \in metaStore : m.key = d.key => m.rv >= d.rv
        /\ \E x \in written : x.rv = u.rv /\ x.type = WatchEvent_MODIFIED
        /\ \E x \in written : x.rv = d.rv /\ x.type = WatchEvent_DELETED

====
